---------------------------- MODULE Spec2Model ----------------------------
(***************************************************************************)
(* Brick-Journey, "Brick Proliferates" installation: the cell-grid fill    *)
(* engine of ProliferationSketch (src/unnamed/part_000, lines 42-1718).    *)
(*                                                                         *)
(* The seven fill programs, the path generators they are built on, the    *)
(* grid accessor, and the frame-driven scheduler of p.draw with the resize *)
(* handler p.windowResized.                                                *)
(***************************************************************************)
EXTENDS Integers, Sequences, FiniteSets, TLC

(***************************************************************************)
(* Configuration constants of the sketch (part_000, lines 83-105).         *)
(***************************************************************************)
TARGET_ROWS == 2
TARGET_COLS == 10
ORIGINAL_IMG_WIDTH == 600
ORIGINAL_IMG_HEIGHT == 500
FREEZE_DURATION == 20
CELL_CLAY == 0
CELL_BRICK == 1
\* FIX_ROWS = false in the source
FIX_ROWS == FALSE

\* The frame accumulator is a real in the source; it is kept here exactly, in
\* units of 1/FrameUnit.  ANIMATION_SPEED = 1 is ANIMATION_SPEED_UNITS units.
FrameUnit == 2
ANIMATION_SPEED_UNITS == 2

\* numRays (lines 609, 1224) and the 15 degree angleStep = 2*PI/numRays
numRays == 24
\* programs.length after initializeGrid (lines 1519-1528)
NumPrograms == 7
\* maxSwipes (lines 770, 945) and maxRotations (line 1198)
maxSwipes == 1
maxRotations == 1

(***************************************************************************)
(* Bounds of the model.                                                    *)
(***************************************************************************)
\* grid dimensions a program is constructed with, in the program harness
MaxRows == 3
MaxCols == 4
\* canvas heights offered to the engine, in units of CanvasUnit pixels
MaxCanvasH == 2

(***************************************************************************)
(* Small helpers.                                                          *)
(***************************************************************************)
Min(a, b) == IF a < b THEN a ELSE b
Max(a, b) == IF a > b THEN a ELSE b
Abs(a) == IF a < 0 THEN -a ELSE a

RECURSIVE Concat(_)
\* the concatenation of a sequence of sequences (repeated push in loop order)
Concat(ss) == IF ss = <<>> THEN <<>> ELSE Head(ss) \o Concat(Tail(ss))

Range(s) == {s[i] : i \in DOMAIN s}

\* the numbers lo, lo+1, ..., hi as a sequence (a counting for-loop)
Upto(lo, hi) == [i \in 1..Max(0, hi - lo + 1) |-> lo + i - 1]
\* the numbers hi, hi-1, ..., lo as a sequence (a descending for-loop)
Downto(hi, lo) == [i \in 1..Max(0, hi - lo + 1) |-> hi - i + 1]

\* for (r...) for (c...) in row-major order
RowMajor(rows, cols) ==
  Concat([i \in 1..rows |-> [j \in 1..cols |-> <<i - 1, j - 1>>]])

\* Math.floor(n / 2) for n >= 0
Half(n) == n \div 2

(***************************************************************************)
(* Path generators.                                                        *)
(***************************************************************************)
\* directions: right, down, left, up (lines 294-299), as <<dr, dc>>
directions == << <<0, 1>>, <<1, 0>>, <<0, -1>>, <<-1, 0>> >>

RECURSIVE SpiralLeg(_, _, _, _, _, _, _)
\* for (j = 0; j < steps; j++) of generateSpiralPath (lines 308-316): walk
\* `left` more cells in direction dir, pushing each in-bounds unvisited cell
SpiralLeg(rows, cols, path, r, c, dir, left) ==
  IF left = 0 THEN [path |-> path, r |-> r, c |-> c]
  ELSE LET r2 == r + dir[1]
           c2 == c + dir[2]
           fresh == /\ r2 >= 0 /\ r2 < rows /\ c2 >= 0 /\ c2 < cols
                    /\ <<r2, c2>> \notin Range(path)
       IN SpiralLeg(rows, cols,
                    IF fresh THEN Append(path, <<r2, c2>>) ELSE path,
                    r2, c2, dir, left - 1)

RECURSIVE SpiralLoop(_, _, _, _, _, _, _)
\* while (spiralPositions.length < rows * cols) of generateSpiralPath
\* (lines 304-321): two legs with the same step count, then steps++
SpiralLoop(rows, cols, path, r, c, dirIndex, steps) ==
  IF Len(path) >= rows * cols THEN path
  ELSE LET a == SpiralLeg(rows, cols, path, r, c, directions[dirIndex + 1], steps)
           b == SpiralLeg(rows, cols, a.path, a.r, a.c,
                          directions[((dirIndex + 1) % 4) + 1], steps)
       IN SpiralLoop(rows, cols, b.path, b.r, b.c, (dirIndex + 2) % 4, steps + 1)

\* a variant of generateSpiralPath that starts in the middle column
generateSpiralPath_midColumn(rows, cols) ==
  LET centerR == Max(0, Half(rows))
      centerC == Max(0, Half(cols))
  IN SpiralLoop(rows, cols, << <<centerR, centerC>> >>, centerR, centerC, 0, 1)

\* ScanBySpiralProgram.generateSpiralPath (lines 279-322)
generateSpiralPath(rows, cols) ==
  LET centerR == Max(0, Half(rows))
      centerC == Max(0, Half(cols) - 1)
  IN SpiralLoop(rows, cols, << <<centerR, centerC>> >>, centerR, centerC, 0, 1)

\* generateDiagonalPaths, first family (lines 457-464): by sum r + c ascending
generateDiagonal1(rows, cols) ==
  Concat([s \in 1..(rows + cols - 1) |->
            LET sum == s - 1
                rs == SelectSeq(Upto(0, rows - 1),
                                LAMBDA r : sum - r >= 0 /\ sum - r < cols)
            IN [k \in 1..Len(rs) |-> <<rs[k], sum - rs[k]>>]])

\* a variant of generateDiagonal2 that runs the differences upward
generateDiagonal2_ascending(rows, cols) ==
  Concat([d \in 1..(rows + cols - 1) |->
            LET diff == (d - 1) - (rows - 1)
                rs == SelectSeq(Upto(0, rows - 1),
                                LAMBDA r : r + diff >= 0 /\ r + diff < cols)
            IN [k \in 1..Len(rs) |-> <<rs[k], rs[k] + diff>>]])

\* generateDiagonalPaths, second family (lines 468-475): by diff c - r descending
generateDiagonal2(rows, cols) ==
  Concat([d \in 1..(rows + cols - 1) |->
            LET diff == (cols - 1) - (d - 1)
                rs == SelectSeq(Upto(0, rows - 1),
                                LAMBDA r : r + diff >= 0 /\ r + diff < cols)
            IN [k \in 1..Len(rs) |-> <<rs[k], rs[k] + diff>>]])

(***************************************************************************)
(* Trigonometry of the 24 ray directions, in fixed point.  cos and sin of  *)
(* k * 15 degrees, scaled by TrigScale and rounded to the nearest integer. *)
(***************************************************************************)
TrigScale == 10000
COS15 == << 10000, 9659, 8660, 7071, 5000, 2588, 0, -2588, -5000, -7071,
            -8660, -9659, -10000, -9659, -8660, -7071, -5000, -2588, 0,
            2588, 5000, 7071, 8660, 9659 >>
SIN15 == << 0, 2588, 5000, 7071, 8660, 9659, 10000, 9659, 8660, 7071, 5000,
            2588, 0, -2588, -5000, -7071, -8660, -9659, -10000, -9659,
            -8660, -7071, -5000, -2588 >>
\* Math.sqrt(2) scaled by TrigScale, rounded down
SQRT2_SCALED == 14142

\* Math.round(Math.atan2(dr, dc) normalised to [0, 2*PI) / angleStep) % numRays
\* (lines 624-628, 1239-1243): the ray whose direction is nearest in angle to
\* (dc, dr), i.e. the one with the largest scalar product; atan2(0, 0) = 0
\* gives ray 0.  No lattice point lies on a boundary between two rays (the
\* tangents of 7.5 + 15 j degrees are irrational), so the lowest index among
\* equal scalar products is only ever taken at the center cell.
rayIndexOf(dr, dc) ==
  LET dot(j) == dc * COS15[j + 1] + dr * SIN15[j + 1]
  IN CHOOSE j \in 0..(numRays - 1) :
       \A k \in 0..(numRays - 1) : dot(j) > dot(k) \/ (dot(j) = dot(k) /\ j <= k)

\* (r - centerR) ** 2 + (c - centerC) ** 2: the distances compare as their squares
distance2(pos, centerR, centerC) ==
  (pos[1] - centerR) * (pos[1] - centerR) + (pos[2] - centerC) * (pos[2] - centerC)

RECURSIVE InsertByDistance(_, _, _, _)
\* one insertion of the stable Array.prototype.sort((a, b) => a.distance -
\* b.distance): x goes after every element that is not farther than x
InsertByDistance(sorted, x, centerR, centerC) ==
  IF sorted = <<>> THEN <<x>>
  ELSE IF distance2(Head(sorted), centerR, centerC) <= distance2(x, centerR, centerC)
       THEN <<Head(sorted)>> \o InsertByDistance(Tail(sorted), x, centerR, centerC)
       ELSE <<x>> \o sorted

RECURSIVE SortByDistance(_, _, _, _)
\* rayPositions[i].sort(...) (lines 638-640, 1253-1255), applied to the first n elements
SortByDistance(s, n, centerR, centerC) ==
  IF n = 0 THEN <<>>
  ELSE InsertByDistance(SortByDistance(s, n - 1, centerR, centerC), s[n],
                        centerR, centerC)

\* rayPositions after the assignment loop and the sort (lines 613-640,
\* 1228-1255): for each ray 0..23 (at index ray + 1) its cells, center outward
rayPositionsOf(rows, cols, centerR, centerC) ==
  [i \in 1..numRays |->
     LET members == SelectSeq(RowMajor(rows, cols),
                      LAMBDA pos : rayIndexOf(pos[1] - centerR, pos[2] - centerC) = i - 1)
     IN SortByDistance(members, Len(members), centerR, centerC)] \o <<>>

\* ScanByRadiationProgram.generateRadiationPaths (lines 604-659)
generateClockwise(rows, cols) ==
  Concat(rayPositionsOf(rows, cols, Max(0, Half(rows)), Max(0, Half(cols) - 1)))

\* a variant of generateCounterclockwise that walks the clockwise sequence backward
generateCounterclockwise_reversed(rows, cols) ==
  LET cw == generateClockwise(rows, cols)
  IN [k \in 1..Len(cw) |-> cw[Len(cw) + 1 - k]]

generateCounterclockwise(rows, cols) ==
  LET rays == rayPositionsOf(rows, cols, Max(0, Half(rows)), Max(0, Half(cols) - 1))
  IN Concat([i \in 1..numRays |-> rays[numRays + 1 - i]])

\* SwipeByRadiationProgram: constructor center (lines 1217-1218) and
\* generateRadiationRays (lines 1222-1262)
generateRadiationRays(rows, cols) ==
  rayPositionsOf(rows, cols, Half(rows), Half(cols))

\* the cell Math.round-ed from sample number n of the loop
\* for (t = -maxDist; t <= maxDist; t += 0.1) of getLinePositions (lines
\* 1275-1280), for the angle k * 15 degrees, with t, cos and sin in fixed point
lineSample(rows, cols, k, n) ==
  LET t == n * (TrigScale \div 10) - Max(rows, cols) * SQRT2_SCALED
      xs == Half(cols) * TrigScale * TrigScale + t * COS15[k + 1]
      ys == Half(rows) * TrigScale * TrigScale + t * SIN15[k + 1]
  IN << (ys + (TrigScale * TrigScale) \div 2) \div (TrigScale * TrigScale),
        (xs + (TrigScale * TrigScale) \div 2) \div (TrigScale * TrigScale) >>

\* SwipeByRadiationProgram.getLinePositions (lines 1264-1291) for the angle
\* angleIdx * 15 degrees (angleIdx may be negative): the in-bounds cells the
\* samples fall in, each once, in the order the loop first meets them
getLinePositions(rows, cols, angleIdx) ==
  LET k == angleIdx % numRays
      last == (2 * Max(rows, cols) * SQRT2_SCALED) \div (TrigScale \div 10)
      cell == [n \in 0..last |-> lineSample(rows, cols, k, n)]
      inGrid(p) == p[1] >= 0 /\ p[1] < rows /\ p[2] >= 0 /\ p[2] < cols
      \* !positions.some(...): the sample's cell was not met before (the
      \* comparison with the sample just before is implied, and tried first)
      firsts == {n \in 0..last :
                   /\ inGrid(cell[n])
                   /\ n = 0 \/ cell[n - 1] # cell[n]
                   /\ \A m \in 0..(n - 1) : cell[m] # cell[n]}
  IN [i \in 1..Cardinality(firsts) |->
        cell[CHOOSE n \in firsts : Cardinality({m \in firsts : m < n}) = i - 1]] \o <<>>

(***************************************************************************)
(* Grid dimensions.                                                        *)
(***************************************************************************)
\* canvas sizes the host may report (offsetWidth, offsetHeight), in pixels
CanvasUnit == 100
CanvasWidths == {10 * CanvasUnit}
CanvasHeights == {CanvasUnit * k : k \in 1..MaxCanvasH}

\* the longest canvas side tried, in units of CanvasUnit; the shortest is 3 units
MaxCanvasSide == 8
CanvasSides == {CanvasUnit * k : k \in 3..MaxCanvasSide}

\* the canvases w x h, among the multiples of CanvasUnit up to 10 units, for
\* which the double-precision quotient canvasHeight / idealCellHeight (line
\* 1497) comes out just below the integer 12 h / w it equals exactly, so
\* that Math.floor gives one less.  (When 12 h is no multiple of w the
\* quotient of the doubles has the floor of the exact quotient.)
quotientBelow ==
  {<<CanvasUnit * p[1], CanvasUnit * p[2]>> :
     p \in {<<1, 5>>, <<1, 9>>, <<1, 10>>, <<2, 5>>, <<2, 9>>, <<2, 10>>,
            <<4, 5>>, <<4, 9>>, <<4, 10>>, <<5, 5>>, <<5, 10>>, <<8, 10>>,
            <<10, 5>>, <<10, 10>>}}

\* calculateDimensions (lines 1473-1512): <<actualRows, actualCols>> for a
\* canvas of w x h pixels.  cellHeight = h / rows and cols = floor(w /
\* cellHeight) when rows are fixed; otherwise cellWidth = w / cols,
\* idealCellHeight = cellWidth / (600 / 500), rows = floor(h /
\* idealCellHeight), forced to at least 1.
calculateDimensions(w, h, fixRows) ==
  IF fixRows
  THEN <<TARGET_ROWS, (w * TARGET_ROWS) \div h>>
  ELSE LET exact == (h * ORIGINAL_IMG_WIDTH * TARGET_COLS) \div (w * ORIGINAL_IMG_HEIGHT)
           fit == IF <<w, h>> \in quotientBelow THEN exact - 1 ELSE exact
       IN <<IF fit < 1 THEN 1 ELSE fit, TARGET_COLS>>

\* every <<rows, cols>> a program is constructed with in this model
EngineDims == {calculateDimensions(w, h, FIX_ROWS) : w \in CanvasWidths, h \in CanvasHeights}
HarnessDims == (1..MaxRows) \X (1..MaxCols)
DimSet == EngineDims \cup HarnessDims

(***************************************************************************)
(* The paths each program object holds from its constructor on.  They are  *)
(* functions of the dimensions only and are never assigned after           *)
(* construction, so they are kept as tables over the dimensions.           *)
(***************************************************************************)
\* (each table is combined with the empty function so that it is held as an
\* explicit function, computed once)
spiralPositions == [d \in DimSet |-> generateSpiralPath(d[1], d[2])] @@ <<>>
diagonal1Positions == [d \in DimSet |-> generateDiagonal1(d[1], d[2])] @@ <<>>
diagonal2Positions == [d \in DimSet |-> generateDiagonal2(d[1], d[2])] @@ <<>>
clockwisePositions == [d \in DimSet |-> generateClockwise(d[1], d[2])] @@ <<>>
counterclockwisePositions ==
  [d \in DimSet |-> generateCounterclockwise(d[1], d[2])] @@ <<>>
\* rayPositions of ScanByRadiationProgram after the sort (lines 605-640)
scanRayPositions ==
  [d \in DimSet |-> rayPositionsOf(d[1], d[2], Max(0, Half(d[1])),
                                   Max(0, Half(d[2]) - 1))] @@ <<>>
clockwiseRays == [d \in DimSet |-> generateRadiationRays(d[1], d[2])] @@ <<>>
\* getLinePositions of every multiple k of 15 degrees, at index k + 1
linePositions ==
  [d \in DimSet |->
     [k \in 1..numRays |-> getLinePositions(d[1], d[2], k - 1)] \o <<>>] @@ <<>>

(***************************************************************************)
(* The grid accessor pair handed to every program.                         *)
(***************************************************************************)
null == <<>>

\* a fresh grid: Array(rows) of Array(cols).fill(CELL_CLAY) (line 1516)
newGrid(rows, cols) == [pos \in (0..(rows - 1)) \X (0..(cols - 1)) |-> CELL_CLAY]

\* a cell write as a program issues it: <<row, col, value>>
Wr(pos, value) == <<pos[1], pos[2], value>>

\* the grid after the calls updateGridState(row, col, value) of the list
\* writes, made in order through updateGridCell (lines 1437-1441): a cell
\* holds the value of the last write that names it, and a write that names
\* no cell of the grid (gridState[row] or gridState[row][col] undefined)
\* changes nothing
applyWrites(grid, writes) ==
  [pos \in DOMAIN grid |->
     LET hits == {k \in 1..Len(writes) : <<writes[k][1], writes[k][2]>> = pos}
     IN IF hits = {} THEN grid[pos]
        ELSE writes[CHOOSE k \in hits : \A j \in hits : j <= k][3]]

\* a variant of updateGridCell that takes a negative index for its magnitude
updateGridCell_mirrored(grid, row, col, value) ==
  applyWrites(grid, <<<<Abs(row), Abs(col), value>>>>)

\* updateGridCell (lines 1437-1441): one write
updateGridCell(grid, row, col, value) == applyWrites(grid, <<<<row, col, value>>>>)

\* a variant of rowWrites whose loop runs one column past the last
rowWrites_pastLastColumn(row, cols, value) ==
  [j \in 1..(cols + 1) |-> <<row, j - 1, value>>]

\* for (c = 0; c < cols; c++) updateGridState(row, c, value)
rowWrites(row, cols, value) == [j \in 1..cols |-> <<row, j - 1, value>>]
\* for (r = 0; r < rows; r++) updateGridState(r, col, value)
colWrites(col, rows, value) == [i \in 1..rows |-> <<i - 1, col, value>>]
\* for (const pos of positions) updateGridState(pos.r, pos.c, value)
pathWrites(positions, value) == [k \in 1..Len(positions) |-> Wr(positions[k], value)]

\* "Phase 0: Initial fill with Clay", the double loop of every reset()
clayFill(rows, cols) == pathWrites(RowMajor(rows, cols), CELL_CLAY)

\* a variant of clearLast that leaves the previous brick in place
clearLast_never(lastBrickPos) == <<>>

\* if (this.lastBrickPos) updateGridState(lastBrickPos.r, lastBrickPos.c, CELL_CLAY)
clearLast(lastBrickPos) ==
  IF lastBrickPos # null THEN <<Wr(lastBrickPos, CELL_CLAY)>> ELSE <<>>

(***************************************************************************)
(* ScanByLineProgram (lines 114-244).                                      *)
(***************************************************************************)
ScanByLineNew ==
  [phase |-> 0, currentRow |-> 0, currentCol |-> 0, lastBrickPos |-> null,
   fillCounter |-> 0, frameCounter |-> 0]

\* reset (lines 142-157)
ScanByLineReset(s, rows, cols) ==
  [prog |-> [phase |-> 1, currentRow |-> 0, currentCol |-> 0, lastBrickPos |-> null,
             fillCounter |-> 0, frameCounter |-> 0],
   writes |-> clayFill(rows, cols)]

\* a variant of ScanByLineStep whose vertical scan advances along the row first
ScanByLineStep_rowsTwice(s, grid, rows, cols) ==
  CASE s.phase \in {1, 2} ->
         LET cur == <<s.currentRow, s.currentCol>>
             col1 == s.currentCol + 1
             wrap == col1 >= cols
             row1 == IF wrap THEN s.currentRow + 1 ELSE s.currentRow
             finished == wrap /\ row1 >= rows
         IN [prog |-> [s EXCEPT !.lastBrickPos = IF finished THEN null ELSE cur,
                                !.currentCol = IF wrap THEN 0 ELSE col1,
                                !.currentRow = IF finished THEN 0 ELSE row1,
                                !.fillCounter = IF finished /\ s.phase = 2 THEN 0 ELSE @,
                                !.phase = IF finished THEN s.phase + 1 ELSE s.phase],
             writes |-> clearLast(s.lastBrickPos) \o <<Wr(cur, CELL_BRICK)>>
                        \o (IF finished THEN <<Wr(cur, CELL_CLAY)>> ELSE <<>>)]
    [] s.phase = 3 ->
         LET clay == SelectSeq(RowMajor(rows, cols), LAMBDA pos : grid[pos] = CELL_CLAY)
             count == IF clay # <<>> THEN s.fillCounter + 1 ELSE s.fillCounter
         IN [prog |-> [s EXCEPT !.fillCounter = count,
                                !.phase = IF count >= rows * cols THEN 4 ELSE 3],
             writes |-> IF clay # <<>> THEN <<Wr(Head(clay), CELL_BRICK)>> ELSE <<>>]
    [] OTHER -> [prog |-> s, writes |-> <<>>]

\* a variant of ScanByLineStep whose fill takes the last CLAY cell found
ScanByLineStep_fillsLastClay(s, grid, rows, cols) ==
  CASE s.phase = 1 ->
         LET cur == <<s.currentRow, s.currentCol>>
             col1 == s.currentCol + 1
             wrap == col1 >= cols
             row1 == IF wrap THEN s.currentRow + 1 ELSE s.currentRow
             finished == wrap /\ row1 >= rows
         IN [prog |-> [s EXCEPT !.lastBrickPos = IF finished THEN null ELSE cur,
                                !.currentCol = IF wrap THEN 0 ELSE col1,
                                !.currentRow = IF finished THEN 0 ELSE row1,
                                !.phase = IF finished THEN 2 ELSE 1],
             writes |-> clearLast(s.lastBrickPos) \o <<Wr(cur, CELL_BRICK)>>
                        \o (IF finished THEN <<Wr(cur, CELL_CLAY)>> ELSE <<>>)]
    [] s.phase = 2 ->
         LET cur == <<s.currentRow, s.currentCol>>
             row1 == s.currentRow + 1
             wrap == row1 >= rows
             col1 == IF wrap THEN s.currentCol + 1 ELSE s.currentCol
             finished == wrap /\ col1 >= cols
         IN [prog |-> [s EXCEPT !.lastBrickPos = IF finished THEN null ELSE cur,
                                !.currentRow = IF wrap THEN 0 ELSE row1,
                                !.currentCol = IF finished THEN 0 ELSE col1,
                                !.fillCounter = IF finished THEN 0 ELSE @,
                                !.phase = IF finished THEN 3 ELSE 2],
             writes |-> clearLast(s.lastBrickPos) \o <<Wr(cur, CELL_BRICK)>>
                        \o (IF finished THEN <<Wr(cur, CELL_CLAY)>> ELSE <<>>)]
    [] s.phase = 3 ->
         LET clay == SelectSeq(RowMajor(rows, cols), LAMBDA pos : grid[pos] = CELL_CLAY)
             count == IF clay # <<>> THEN s.fillCounter + 1 ELSE s.fillCounter
         IN [prog |-> [s EXCEPT !.fillCounter = count,
                                !.phase = IF count >= rows * cols THEN 4 ELSE 3],
             writes |-> IF clay # <<>> THEN <<Wr(clay[Len(clay)], CELL_BRICK)>> ELSE <<>>]
    [] OTHER -> [prog |-> s, writes |-> <<>>]

\* the switch of update (lines 171-238)
ScanByLineStep(s, grid, rows, cols) ==
  CASE s.phase = 1 ->
         LET cur == <<s.currentRow, s.currentCol>>
             col1 == s.currentCol + 1
             wrap == col1 >= cols
             row1 == IF wrap THEN s.currentRow + 1 ELSE s.currentRow
             finished == wrap /\ row1 >= rows
         IN [prog |-> [s EXCEPT !.lastBrickPos = IF finished THEN null ELSE cur,
                                !.currentCol = IF wrap THEN 0 ELSE col1,
                                !.currentRow = IF finished THEN 0 ELSE row1,
                                !.phase = IF finished THEN 2 ELSE 1],
             writes |-> clearLast(s.lastBrickPos) \o <<Wr(cur, CELL_BRICK)>>
                        \o (IF finished THEN <<Wr(cur, CELL_CLAY)>> ELSE <<>>)]
    [] s.phase = 2 ->
         LET cur == <<s.currentRow, s.currentCol>>
             row1 == s.currentRow + 1
             wrap == row1 >= rows
             col1 == IF wrap THEN s.currentCol + 1 ELSE s.currentCol
             finished == wrap /\ col1 >= cols
         IN [prog |-> [s EXCEPT !.lastBrickPos = IF finished THEN null ELSE cur,
                                !.currentRow = IF wrap THEN 0 ELSE row1,
                                !.currentCol = IF finished THEN 0 ELSE col1,
                                !.fillCounter = IF finished THEN 0 ELSE @,
                                !.phase = IF finished THEN 3 ELSE 2],
             writes |-> clearLast(s.lastBrickPos) \o <<Wr(cur, CELL_BRICK)>>
                        \o (IF finished THEN <<Wr(cur, CELL_CLAY)>> ELSE <<>>)]
    [] s.phase = 3 ->
         LET clay == SelectSeq(RowMajor(rows, cols), LAMBDA pos : grid[pos] = CELL_CLAY)
             count == IF clay # <<>> THEN s.fillCounter + 1 ELSE s.fillCounter
         IN [prog |-> [s EXCEPT !.fillCounter = count,
                                !.phase = IF count >= rows * cols THEN 4 ELSE 3],
             writes |-> IF clay # <<>> THEN <<Wr(Head(clay), CELL_BRICK)>> ELSE <<>>]
    [] OTHER -> [prog |-> s, writes |-> <<>>]

\* a variant of ScanByLineDone that reports completion one phase early,
\* when the fill phase starts
ScanByLineDone_early(s) == s.phase >= 3

\* a variant of ScanByLineDone that never reports completion
ScanByLineDone_never(s) == s.phase = 4 /\ s.phase = 0

\* isDone (lines 241-243)
ScanByLineDone(s) == s.phase = 4

(***************************************************************************)
(* ScanBySpiralProgram (lines 246-415).                                    *)
(***************************************************************************)
ScanBySpiralNew ==
  [phase |-> 0, lastBrickPos |-> null, fillCounter |-> 0, frameCounter |-> 0,
   spiralIndex |-> 0, reverseIndex |-> 0, fillIndex |-> 0]

\* a variant of ScanBySpiralReset that forgets to rewind the spiral cursor
ScanBySpiralReset_keepsIndex(s, rows, cols) ==
  [prog |-> [phase |-> 1, lastBrickPos |-> null, fillCounter |-> 0,
             frameCounter |-> 0,
             spiralIndex |-> s.spiralIndex, reverseIndex |-> 0, fillIndex |-> 0],
   writes |-> clayFill(rows, cols)]

\* reset (lines 324-340)
ScanBySpiralReset(s, rows, cols) ==
  [prog |-> [phase |-> 1, lastBrickPos |-> null, fillCounter |-> 0,
             frameCounter |-> 0,
             spiralIndex |-> 0, reverseIndex |-> 0, fillIndex |-> 0],
   writes |-> clayFill(rows, cols)]

\* a variant of ScanBySpiralStep whose reverse scan clears its last cell in the
\* call that paints it
ScanBySpiralStep_clearsLastAtOnce(s, grid, rows, cols) ==
  LET path == spiralPositions[<<rows, cols>>]
  IN CASE s.phase = 1 ->
            IF s.spiralIndex < Len(path)
            THEN LET pos == path[s.spiralIndex + 1]
                 IN [prog |-> [s EXCEPT !.lastBrickPos = pos, !.spiralIndex = @ + 1],
                     writes |-> clearLast(s.lastBrickPos) \o <<Wr(pos, CELL_BRICK)>>]
            ELSE [prog |-> [s EXCEPT !.lastBrickPos = null, !.phase = 2,
                                     !.reverseIndex = Len(path) - 1],
                  writes |-> clearLast(s.lastBrickPos) \o clearLast(s.lastBrickPos)]
       [] s.phase = 2 ->
            IF s.reverseIndex >= 0
            THEN LET pos == path[s.reverseIndex + 1]
                     finished == s.reverseIndex = 0
                 IN [prog |-> [s EXCEPT !.lastBrickPos = IF finished THEN null ELSE pos,
                                        !.reverseIndex = @ - 1,
                                        !.phase = IF finished THEN 3 ELSE 2],
                     writes |-> clearLast(s.lastBrickPos) \o <<Wr(pos, CELL_BRICK)>>
                                \o (IF finished THEN <<Wr(pos, CELL_CLAY)>> ELSE <<>>)]
            ELSE [prog |-> [s EXCEPT !.lastBrickPos = null, !.phase = 3,
                                     !.fillIndex = 0],
                  writes |-> clearLast(s.lastBrickPos) \o clearLast(s.lastBrickPos)]
       [] s.phase = 3 ->
            IF s.fillIndex < Len(path)
            THEN LET pos == path[s.fillIndex + 1]
                     isClay == grid[pos] = CELL_CLAY
                 IN [prog |-> [s EXCEPT !.fillIndex = @ + 1,
                                        !.fillCounter = IF isClay THEN @ + 1 ELSE @],
                     writes |-> IF isClay THEN <<Wr(pos, CELL_BRICK)>> ELSE <<>>]
            ELSE [prog |-> [s EXCEPT !.phase = 4], writes |-> <<>>]
       [] OTHER -> [prog |-> s, writes |-> <<>>]

\* a variant of ScanBySpiralStep that fills from the end of the path
ScanBySpiralStep_fillsBackward(s, grid, rows, cols) ==
  LET path == spiralPositions[<<rows, cols>>]
  IN CASE s.phase = 1 ->
            IF s.spiralIndex < Len(path)
            THEN LET pos == path[s.spiralIndex + 1]
                 IN [prog |-> [s EXCEPT !.lastBrickPos = pos, !.spiralIndex = @ + 1],
                     writes |-> clearLast(s.lastBrickPos) \o <<Wr(pos, CELL_BRICK)>>]
            ELSE [prog |-> [s EXCEPT !.lastBrickPos = null, !.phase = 2,
                                     !.reverseIndex = Len(path) - 1],
                  writes |-> clearLast(s.lastBrickPos) \o clearLast(s.lastBrickPos)]
       [] s.phase = 2 ->
            IF s.reverseIndex >= 0
            THEN LET pos == path[s.reverseIndex + 1]
                 IN [prog |-> [s EXCEPT !.lastBrickPos = pos, !.reverseIndex = @ - 1],
                     writes |-> clearLast(s.lastBrickPos) \o <<Wr(pos, CELL_BRICK)>>]
            ELSE [prog |-> [s EXCEPT !.lastBrickPos = null, !.phase = 3,
                                     !.fillIndex = 0],
                  writes |-> clearLast(s.lastBrickPos) \o clearLast(s.lastBrickPos)]
       [] s.phase = 3 ->
            IF s.fillIndex < Len(path)
            THEN LET pos == path[Len(path) - s.fillIndex]
                     isClay == grid[pos] = CELL_CLAY
                 IN [prog |-> [s EXCEPT !.fillIndex = @ + 1,
                                        !.fillCounter = IF isClay THEN @ + 1 ELSE @],
                     writes |-> IF isClay THEN <<Wr(pos, CELL_BRICK)>> ELSE <<>>]
            ELSE [prog |-> [s EXCEPT !.phase = 4], writes |-> <<>>]
       [] OTHER -> [prog |-> s, writes |-> <<>>]

\* the switch of update (lines 354-409)
ScanBySpiralStep(s, grid, rows, cols) ==
  LET path == spiralPositions[<<rows, cols>>]
  IN CASE s.phase = 1 ->
            IF s.spiralIndex < Len(path)
            THEN LET pos == path[s.spiralIndex + 1]
                 IN [prog |-> [s EXCEPT !.lastBrickPos = pos, !.spiralIndex = @ + 1],
                     writes |-> clearLast(s.lastBrickPos) \o <<Wr(pos, CELL_BRICK)>>]
            ELSE [prog |-> [s EXCEPT !.lastBrickPos = null, !.phase = 2,
                                     !.reverseIndex = Len(path) - 1],
                  writes |-> clearLast(s.lastBrickPos) \o clearLast(s.lastBrickPos)]
       [] s.phase = 2 ->
            IF s.reverseIndex >= 0
            THEN LET pos == path[s.reverseIndex + 1]
                 IN [prog |-> [s EXCEPT !.lastBrickPos = pos, !.reverseIndex = @ - 1],
                     writes |-> clearLast(s.lastBrickPos) \o <<Wr(pos, CELL_BRICK)>>]
            ELSE [prog |-> [s EXCEPT !.lastBrickPos = null, !.phase = 3,
                                     !.fillIndex = 0],
                  writes |-> clearLast(s.lastBrickPos) \o clearLast(s.lastBrickPos)]
       [] s.phase = 3 ->
            IF s.fillIndex < Len(path)
            THEN LET pos == path[s.fillIndex + 1]
                     isClay == grid[pos] = CELL_CLAY
                 IN [prog |-> [s EXCEPT !.fillIndex = @ + 1,
                                        !.fillCounter = IF isClay THEN @ + 1 ELSE @],
                     writes |-> IF isClay THEN <<Wr(pos, CELL_BRICK)>> ELSE <<>>]
            ELSE [prog |-> [s EXCEPT !.phase = 4], writes |-> <<>>]
       [] OTHER -> [prog |-> s, writes |-> <<>>]

\* a variant of ScanBySpiralDone that reports completion one phase early,
\* when the fill phase starts
ScanBySpiralDone_early(s) == s.phase >= 3

\* isDone (lines 412-414)
ScanBySpiralDone(s) == s.phase = 4

(***************************************************************************)
(* ScanByDiagonalProgram (lines 417-568).                                     *)
(***************************************************************************)
ScanByDiagonalNew ==
  [phase |-> 0, lastBrickPos |-> null, fillCounter |-> 0, frameCounter |-> 0,
   diagonal1Index |-> 0, diagonal2Index |-> 0, fillIndex |-> 0]

\* a variant of ScanByDiagonalReset that leaves fillCounter as the last run left it
ScanByDiagonalReset_keepsFillCounter(s, rows, cols) ==
  [prog |-> [phase |-> 1, lastBrickPos |-> null, fillCounter |-> s.fillCounter,
             frameCounter |-> 0, diagonal1Index |-> 0, diagonal2Index |-> 0,
             fillIndex |-> 0],
   writes |-> clayFill(rows, cols)]

\* reset (lines 478-494)
ScanByDiagonalReset(s, rows, cols) ==
  [prog |-> [phase |-> 1, lastBrickPos |-> null, fillCounter |-> 0, frameCounter |-> 0,
             diagonal1Index |-> 0, diagonal2Index |-> 0, fillIndex |-> 0],
   writes |-> clayFill(rows, cols)]

\* a variant of ScanByDiagonalStep that ends the first scan without
\* forgetting the last cell it painted
ScanByDiagonalStep_keepsLast(s, grid, rows, cols) ==
  LET first == diagonal1Positions[<<rows, cols>>]
      second == diagonal2Positions[<<rows, cols>>]
  IN CASE s.phase = 1 ->
            IF s.diagonal1Index < Len(first)
            THEN LET pos == first[s.diagonal1Index + 1]
                 IN [prog |-> [s EXCEPT !.lastBrickPos = pos, !.diagonal1Index = @ + 1],
                     writes |-> clearLast(s.lastBrickPos) \o <<Wr(pos, CELL_BRICK)>>]
            ELSE [prog |-> [s EXCEPT !.phase = 2],
                  writes |-> clearLast(s.lastBrickPos) \o clearLast(s.lastBrickPos)]
       [] s.phase = 2 ->
            IF s.diagonal2Index < Len(second)
            THEN LET pos == second[s.diagonal2Index + 1]
                 IN [prog |-> [s EXCEPT !.lastBrickPos = pos, !.diagonal2Index = @ + 1],
                     writes |-> clearLast(s.lastBrickPos) \o <<Wr(pos, CELL_BRICK)>>]
            ELSE [prog |-> [s EXCEPT !.lastBrickPos = null, !.phase = 3,
                                     !.fillIndex = 0],
                  writes |-> clearLast(s.lastBrickPos) \o clearLast(s.lastBrickPos)]
       [] s.phase = 3 ->
            IF s.fillIndex < Len(first)
            THEN LET pos == first[s.fillIndex + 1]
                     isClay == grid[pos] = CELL_CLAY
                 IN [prog |-> [s EXCEPT !.fillIndex = @ + 1,
                                        !.fillCounter = IF isClay THEN @ + 1 ELSE @],
                     writes |-> IF isClay THEN <<Wr(pos, CELL_BRICK)>> ELSE <<>>]
            ELSE [prog |-> [s EXCEPT !.phase = 4], writes |-> <<>>]
       [] OTHER -> [prog |-> s, writes |-> <<>>]

\* the switch of update (lines 508-562)
ScanByDiagonalStep(s, grid, rows, cols) ==
  LET first == diagonal1Positions[<<rows, cols>>]
      second == diagonal2Positions[<<rows, cols>>]
  IN CASE s.phase = 1 ->
            IF s.diagonal1Index < Len(first)
            THEN LET pos == first[s.diagonal1Index + 1]
                 IN [prog |-> [s EXCEPT !.lastBrickPos = pos, !.diagonal1Index = @ + 1],
                     writes |-> clearLast(s.lastBrickPos) \o <<Wr(pos, CELL_BRICK)>>]
            ELSE [prog |-> [s EXCEPT !.lastBrickPos = null, !.phase = 2],
                  writes |-> clearLast(s.lastBrickPos) \o clearLast(s.lastBrickPos)]
       [] s.phase = 2 ->
            IF s.diagonal2Index < Len(second)
            THEN LET pos == second[s.diagonal2Index + 1]
                 IN [prog |-> [s EXCEPT !.lastBrickPos = pos, !.diagonal2Index = @ + 1],
                     writes |-> clearLast(s.lastBrickPos) \o <<Wr(pos, CELL_BRICK)>>]
            ELSE [prog |-> [s EXCEPT !.lastBrickPos = null, !.phase = 3,
                                     !.fillIndex = 0],
                  writes |-> clearLast(s.lastBrickPos) \o clearLast(s.lastBrickPos)]
       [] s.phase = 3 ->
            IF s.fillIndex < Len(first)
            THEN LET pos == first[s.fillIndex + 1]
                     isClay == grid[pos] = CELL_CLAY
                 IN [prog |-> [s EXCEPT !.fillIndex = @ + 1,
                                        !.fillCounter = IF isClay THEN @ + 1 ELSE @],
                     writes |-> IF isClay THEN <<Wr(pos, CELL_BRICK)>> ELSE <<>>]
            ELSE [prog |-> [s EXCEPT !.phase = 4], writes |-> <<>>]
       [] OTHER -> [prog |-> s, writes |-> <<>>]

\* isDone (lines 565-567)
ScanByDiagonalDone(s) == s.phase = 4

(***************************************************************************)
(* ScanByRadiationProgram (lines 570-751).                                    *)
(***************************************************************************)
ScanByRadiationNew ==
  [phase |-> 0, lastBrickPos |-> null, fillCounter |-> 0, frameCounter |-> 0,
   clockwiseIndex |-> 0, counterclockwiseIndex |-> 0, fillIndex |-> 0]

\* reset (lines 661-677)
ScanByRadiationReset(s, rows, cols) ==
  [prog |-> [phase |-> 1, lastBrickPos |-> null, fillCounter |-> 0, frameCounter |-> 0,
             clockwiseIndex |-> 0, counterclockwiseIndex |-> 0, fillIndex |-> 0],
   writes |-> clayFill(rows, cols)]

\* the switch of update (lines 691-745)
ScanByRadiationStep(s, grid, rows, cols) ==
  LET first == clockwisePositions[<<rows, cols>>]
      second == counterclockwisePositions[<<rows, cols>>]
  IN CASE s.phase = 1 ->
            IF s.clockwiseIndex < Len(first)
            THEN LET pos == first[s.clockwiseIndex + 1]
                 IN [prog |-> [s EXCEPT !.lastBrickPos = pos, !.clockwiseIndex = @ + 1],
                     writes |-> clearLast(s.lastBrickPos) \o <<Wr(pos, CELL_BRICK)>>]
            ELSE [prog |-> [s EXCEPT !.lastBrickPos = null, !.phase = 2],
                  writes |-> clearLast(s.lastBrickPos) \o clearLast(s.lastBrickPos)]
       [] s.phase = 2 ->
            IF s.counterclockwiseIndex < Len(second)
            THEN LET pos == second[s.counterclockwiseIndex + 1]
                 IN [prog |-> [s EXCEPT !.lastBrickPos = pos, !.counterclockwiseIndex = @ + 1],
                     writes |-> clearLast(s.lastBrickPos) \o <<Wr(pos, CELL_BRICK)>>]
            ELSE [prog |-> [s EXCEPT !.lastBrickPos = null, !.phase = 3,
                                     !.fillIndex = 0],
                  writes |-> clearLast(s.lastBrickPos) \o clearLast(s.lastBrickPos)]
       [] s.phase = 3 ->
            IF s.fillIndex < Len(first)
            THEN LET pos == first[s.fillIndex + 1]
                     isClay == grid[pos] = CELL_CLAY
                 IN [prog |-> [s EXCEPT !.fillIndex = @ + 1,
                                        !.fillCounter = IF isClay THEN @ + 1 ELSE @],
                     writes |-> IF isClay THEN <<Wr(pos, CELL_BRICK)>> ELSE <<>>]
            ELSE [prog |-> [s EXCEPT !.phase = 4], writes |-> <<>>]
       [] OTHER -> [prog |-> s, writes |-> <<>>]

\* isDone (lines 748-750)
ScanByRadiationDone(s) == s.phase = 4

(***************************************************************************)
(* SwipeByLineProgram (lines 753-924).                                     *)
(***************************************************************************)
SwipeByLineNew ==
  [phase |-> 0, frameCounter |-> 0, currentRow |-> 0, currentCol |-> 0,
   verticalDirection |-> 1, horizontalDirection |-> 1,
   verticalSwipeCount |-> 0, horizontalSwipeCount |-> 0, fillRow |-> 0]

\* reset (lines 787-805)
SwipeByLineReset(s, rows, cols) ==
  [prog |-> [phase |-> 1, frameCounter |-> 0, currentRow |-> 0, currentCol |-> 0,
             verticalDirection |-> 1, horizontalDirection |-> 1,
             verticalSwipeCount |-> 0, horizontalSwipeCount |-> 0, fillRow |-> 0],
   writes |-> clayFill(rows, cols)]

\* a variant of bounce that reverses at the boundaries without counting
\* the swipe
bounce_forever(moved, size, direction, count) ==
  IF moved >= size - 1 THEN <<size - 1, -1, count>>
  ELSE IF moved <= 0 THEN <<0, 1, count>>
  ELSE <<moved, direction, count>>

\* a variant of bounce that reverses and counts at a boundary without
\* bringing the cursor back onto the axis
bounce_unclamped(moved, size, direction, count) ==
  IF moved >= size - 1 THEN <<moved, -1, count + 1>>
  ELSE IF moved <= 0 THEN <<moved, 1, count + 1>>
  ELSE <<moved, direction, count>>

\* "Check boundaries and reverse direction" (lines 837-845, 881-889) for a
\* cursor moved to `moved` on an axis of `size` cells:
\* <<cursor, direction, swipe count>>
bounce(moved, size, direction, count) ==
  IF moved >= size - 1 THEN <<size - 1, -1, count + 1>>
  ELSE IF moved <= 0 THEN <<0, 1, count + 1>>
  ELSE <<moved, direction, count>>

\* a variant of SwipeByLineStep that leaves the final row of the vertical
\* swipe drawn
SwipeByLineStep_keepsFinalRow(s, grid, rows, cols) ==
  CASE s.phase = 1 ->
         [prog |-> [s EXCEPT !.currentRow = 0, !.phase = 2],
          writes |-> rowWrites(0, cols, CELL_BRICK)]
    [] s.phase = 2 ->
         LET b == bounce(s.currentRow + s.verticalDirection, rows,
                         s.verticalDirection, s.verticalSwipeCount)
             finished == b[3] >= maxSwipes * 2
         IN [prog |-> [s EXCEPT !.currentRow = b[1], !.verticalDirection = b[2],
                                !.verticalSwipeCount = b[3],
                                !.phase = IF finished THEN 3 ELSE 2],
             writes |-> rowWrites(s.currentRow, cols, CELL_CLAY)
                        \o rowWrites(b[1], cols, CELL_BRICK)
                        \o <<>>]
    [] s.phase = 3 ->
         [prog |-> [s EXCEPT !.currentCol = 0, !.phase = 4],
          writes |-> colWrites(0, rows, CELL_BRICK)]
    [] s.phase = 4 ->
         LET b == bounce(s.currentCol + s.horizontalDirection, cols,
                         s.horizontalDirection, s.horizontalSwipeCount)
             finished == b[3] >= maxSwipes * 2
         IN [prog |-> [s EXCEPT !.currentCol = b[1], !.horizontalDirection = b[2],
                                !.horizontalSwipeCount = b[3],
                                !.fillRow = IF finished THEN 0 ELSE @,
                                !.phase = IF finished THEN 5 ELSE 4],
             writes |-> colWrites(s.currentCol, rows, CELL_CLAY)
                        \o colWrites(b[1], rows, CELL_BRICK)
                        \o (IF finished THEN colWrites(b[1], rows, CELL_CLAY) ELSE <<>>)]
    [] s.phase = 5 ->
         IF s.fillRow < rows
         THEN [prog |-> [s EXCEPT !.fillRow = @ + 1],
               writes |-> rowWrites(s.fillRow, cols, CELL_BRICK)]
         ELSE [prog |-> [s EXCEPT !.phase = 6], writes |-> <<>>]
    [] OTHER -> [prog |-> s, writes |-> <<>>]

\* a variant of SwipeByLineStep that completes on the call filling the last row
SwipeByLineStep_doneOnLastRow(s, grid, rows, cols) ==
  CASE s.phase = 1 ->
         [prog |-> [s EXCEPT !.currentRow = 0, !.phase = 2],
          writes |-> rowWrites(0, cols, CELL_BRICK)]
    [] s.phase = 2 ->
         LET b == bounce(s.currentRow + s.verticalDirection, rows,
                         s.verticalDirection, s.verticalSwipeCount)
             finished == b[3] >= maxSwipes * 2
         IN [prog |-> [s EXCEPT !.currentRow = b[1], !.verticalDirection = b[2],
                                !.verticalSwipeCount = b[3],
                                !.phase = IF finished THEN 3 ELSE 2],
             writes |-> rowWrites(s.currentRow, cols, CELL_CLAY)
                        \o rowWrites(b[1], cols, CELL_BRICK)
                        \o (IF finished THEN rowWrites(b[1], cols, CELL_CLAY) ELSE <<>>)]
    [] s.phase = 3 ->
         [prog |-> [s EXCEPT !.currentCol = 0, !.phase = 4],
          writes |-> colWrites(0, rows, CELL_BRICK)]
    [] s.phase = 4 ->
         LET b == bounce(s.currentCol + s.horizontalDirection, cols,
                         s.horizontalDirection, s.horizontalSwipeCount)
             finished == b[3] >= maxSwipes * 2
         IN [prog |-> [s EXCEPT !.currentCol = b[1], !.horizontalDirection = b[2],
                                !.horizontalSwipeCount = b[3],
                                !.fillRow = IF finished THEN 0 ELSE @,
                                !.phase = IF finished THEN 5 ELSE 4],
             writes |-> colWrites(s.currentCol, rows, CELL_CLAY)
                        \o colWrites(b[1], rows, CELL_BRICK)
                        \o (IF finished THEN colWrites(b[1], rows, CELL_CLAY) ELSE <<>>)]
    [] s.phase = 5 ->
         IF s.fillRow < rows
         THEN [prog |-> [s EXCEPT !.fillRow = @ + 1,
                               !.phase = IF s.fillRow + 1 >= rows THEN 6 ELSE 5],
               writes |-> rowWrites(s.fillRow, cols, CELL_BRICK)]
         ELSE [prog |-> [s EXCEPT !.phase = 6], writes |-> <<>>]
    [] OTHER -> [prog |-> s, writes |-> <<>>]

\* the switch of update (lines 817-918)
SwipeByLineStep(s, grid, rows, cols) ==
  CASE s.phase = 1 ->
         [prog |-> [s EXCEPT !.currentRow = 0, !.phase = 2],
          writes |-> rowWrites(0, cols, CELL_BRICK)]
    [] s.phase = 2 ->
         LET b == bounce(s.currentRow + s.verticalDirection, rows,
                         s.verticalDirection, s.verticalSwipeCount)
             finished == b[3] >= maxSwipes * 2
         IN [prog |-> [s EXCEPT !.currentRow = b[1], !.verticalDirection = b[2],
                                !.verticalSwipeCount = b[3],
                                !.phase = IF finished THEN 3 ELSE 2],
             writes |-> rowWrites(s.currentRow, cols, CELL_CLAY)
                        \o rowWrites(b[1], cols, CELL_BRICK)
                        \o (IF finished THEN rowWrites(b[1], cols, CELL_CLAY) ELSE <<>>)]
    [] s.phase = 3 ->
         [prog |-> [s EXCEPT !.currentCol = 0, !.phase = 4],
          writes |-> colWrites(0, rows, CELL_BRICK)]
    [] s.phase = 4 ->
         LET b == bounce(s.currentCol + s.horizontalDirection, cols,
                         s.horizontalDirection, s.horizontalSwipeCount)
             finished == b[3] >= maxSwipes * 2
         IN [prog |-> [s EXCEPT !.currentCol = b[1], !.horizontalDirection = b[2],
                                !.horizontalSwipeCount = b[3],
                                !.fillRow = IF finished THEN 0 ELSE @,
                                !.phase = IF finished THEN 5 ELSE 4],
             writes |-> colWrites(s.currentCol, rows, CELL_CLAY)
                        \o colWrites(b[1], rows, CELL_BRICK)
                        \o (IF finished THEN colWrites(b[1], rows, CELL_CLAY) ELSE <<>>)]
    [] s.phase = 5 ->
         IF s.fillRow < rows
         THEN [prog |-> [s EXCEPT !.fillRow = @ + 1],
               writes |-> rowWrites(s.fillRow, cols, CELL_BRICK)]
         ELSE [prog |-> [s EXCEPT !.phase = 6], writes |-> <<>>]
    [] OTHER -> [prog |-> s, writes |-> <<>>]

\* isDone (lines 921-923)
SwipeByLineDone(s) == s.phase = 6

(***************************************************************************)
(* SwipeByDiagonalProgram (lines 926-1180).                                *)
(***************************************************************************)
SwipeByDiagonalNew ==
  [phase |-> 0, frameCounter |-> 0,
   currentDiagonal1Index |-> 0, currentDiagonal2Index |-> 0,
   diagonal1Direction |-> 1, diagonal2Direction |-> 1,
   diagonal1SwipeCount |-> 0, diagonal2SwipeCount |-> 0,
   fillIndex |-> 0, currentFillDiagonal |-> 0]

\* reset (lines 991-1010)
SwipeByDiagonalReset(s, rows, cols) ==
  [prog |-> [phase |-> 1, frameCounter |-> 0,
             currentDiagonal1Index |-> 0, currentDiagonal2Index |-> 0,
             diagonal1Direction |-> 1, diagonal2Direction |-> 1,
             diagonal1SwipeCount |-> 0, diagonal2SwipeCount |-> 0,
             fillIndex |-> 0, currentFillDiagonal |-> 0],
   writes |-> clayFill(rows, cols)]

\* the guarded loop "for (i = 0; i < Math.min(rows, cols); i++)" over the
\* block of path positions that starts at index (lines 1039-1047 and alike)
blockWrites(path, index, width, value) ==
  IF index >= 0 /\ index < Len(path)
  THEN LET idxs == SelectSeq(Upto(index, index + width - 1), LAMBDA i : i < Len(path))
       IN [k \in 1..Len(idxs) |-> Wr(path[idxs[k] + 1], value)]
  ELSE <<>>

\* a variant of bounceBlock whose upper boundary is the last path position
bounceBlock_toPathEnd(moved, length, width, direction, count) ==
  IF moved >= length - 1 THEN <<length - 1, -1, count + 1>>
  ELSE IF moved <= 0 THEN <<0, 1, count + 1>>
  ELSE <<moved, direction, count>>

\* "Check boundaries and reverse direction" (lines 1053-1061, 1120-1128)
bounceBlock(moved, length, width, direction, count) ==
  IF moved >= length - width THEN <<length - width, -1, count + 1>>
  ELSE IF moved <= 0 THEN <<0, 1, count + 1>>
  ELSE <<moved, direction, count>>

\* the switch of update (lines 1022-1174)
SwipeByDiagonalStep(s, grid, rows, cols) ==
  LET d1 == diagonal1Positions[<<rows, cols>>]
      d2 == diagonal2Positions[<<rows, cols>>]
      width == Min(rows, cols)
  IN CASE s.phase = 1 ->
            [prog |-> [s EXCEPT !.currentDiagonal1Index = 0, !.phase = 2],
             writes |-> IF Len(d1) > 0 THEN blockWrites(d1, 0, width, CELL_BRICK) ELSE <<>>]
       [] s.phase = 2 ->
            LET b == bounceBlock(s.currentDiagonal1Index + s.diagonal1Direction * width,
                                 Len(d1), width, s.diagonal1Direction, s.diagonal1SwipeCount)
                finished == b[3] >= maxSwipes * 2
            IN [prog |-> [s EXCEPT !.currentDiagonal1Index = b[1],
                                   !.diagonal1Direction = b[2],
                                   !.diagonal1SwipeCount = b[3],
                                   !.phase = IF finished THEN 3 ELSE 2],
                writes |-> blockWrites(d1, s.currentDiagonal1Index, width, CELL_CLAY)
                           \o blockWrites(d1, b[1], width, CELL_BRICK)
                           \o (IF finished THEN blockWrites(d1, b[1], width, CELL_CLAY)
                               ELSE <<>>)]
       [] s.phase = 3 ->
            [prog |-> [s EXCEPT !.currentDiagonal2Index = 0, !.phase = 4],
             writes |-> IF Len(d2) > 0 THEN blockWrites(d2, 0, width, CELL_BRICK) ELSE <<>>]
       [] s.phase = 4 ->
            LET b == bounceBlock(s.currentDiagonal2Index + s.diagonal2Direction * width,
                                 Len(d2), width, s.diagonal2Direction, s.diagonal2SwipeCount)
                finished == b[3] >= maxSwipes * 2
            IN [prog |-> [s EXCEPT !.currentDiagonal2Index = b[1],
                                   !.diagonal2Direction = b[2],
                                   !.diagonal2SwipeCount = b[3],
                                   !.fillIndex = IF finished THEN 0 ELSE @,
                                   !.currentFillDiagonal = IF finished THEN 0 ELSE @,
                                   !.phase = IF finished THEN 5 ELSE 4],
                writes |-> blockWrites(d2, s.currentDiagonal2Index, width, CELL_CLAY)
                           \o blockWrites(d2, b[1], width, CELL_BRICK)
                           \o (IF finished THEN blockWrites(d2, b[1], width, CELL_CLAY)
                               ELSE <<>>)]
       [] s.phase = 5 ->
            IF s.currentFillDiagonal < rows + cols - 1
            THEN LET rs == SelectSeq(Upto(0, rows - 1),
                             LAMBDA r : s.currentFillDiagonal - r >= 0
                                        /\ s.currentFillDiagonal - r < cols)
                 IN [prog |-> [s EXCEPT !.currentFillDiagonal = @ + 1],
                     writes |-> [k \in 1..Len(rs) |->
                                   <<rs[k], s.currentFillDiagonal - rs[k], CELL_BRICK>>]]
            ELSE [prog |-> [s EXCEPT !.phase = 6], writes |-> <<>>]
       [] OTHER -> [prog |-> s, writes |-> <<>>]

\* isDone (lines 1177-1179)
SwipeByDiagonalDone(s) == s.phase = 6

(***************************************************************************)
(* SwipeByRadiationProgram (lines 1182-1409).                              *)
(*                                                                         *)
(* currentAngle is a double that only ever holds 0 and sums and            *)
(* differences of angleStep = Math.PI / 12; it is kept as the number of    *)
(* 15 degree steps it stands for.  The two comparisons with 2 * Math.PI    *)
(* are decided by the doubles:                                             *)
(*   - 24 additions of Math.PI / 12 to 0 give 6.2831853071795845, which is *)
(*     below 2 * Math.PI = 6.283185307179586, so "currentAngle >= 2 *      *)
(*     Math.PI" first holds after the 25th addition, and the remainder     *)
(*     % (2 * Math.PI) is then 0.26179938779914735, one step;              *)
(*   - from there the 25th subtraction gives -6.283185307179586, which is  *)
(*     <= -2 * Math.PI, at minus 24 steps, with remainder -0.              *)
(***************************************************************************)
\* least number of steps s with s additions of angleStep >= 2 * Math.PI (line 1348)
CW_WRAP_STEPS == 25
\* least number of steps s with the angle at -s steps <= -2 * Math.PI (line 1371)
CCW_WRAP_STEPS == 24

SwipeByRadiationNew ==
  [phase |-> 0, frameCounter |-> 0, currentAngle |-> 0,
   clockwiseRotationCount |-> 0, counterclockwiseRotationCount |-> 0,
   currentFillRay |-> 0]

\* reset (lines 1305-1320)
SwipeByRadiationReset(s, rows, cols) ==
  [prog |-> [phase |-> 1, frameCounter |-> 0, currentAngle |-> 0,
             clockwiseRotationCount |-> 0, counterclockwiseRotationCount |-> 0,
             currentFillRay |-> 0],
   writes |-> clayFill(rows, cols)]

\* this.getLinePositions(angle) for the angle of angleIdx steps
lineAt(rows, cols, angleIdx) == linePositions[<<rows, cols>>][(angleIdx % numRays) + 1]

\* a variant of SwipeByRadiationStep whose clockwise rotation clears the line
\* at the new angle, not the line it drew before
SwipeByRadiationStep_keepsOldLine(s, grid, rows, cols) ==
  CASE s.phase = 1 ->
         [prog |-> [s EXCEPT !.phase = 2],
          writes |-> pathWrites(lineAt(rows, cols, s.currentAngle), CELL_BRICK)]
    [] s.phase = 2 ->
         LET turned == s.currentAngle + 1
             wrapped == turned >= CW_WRAP_STEPS
             angle == IF wrapped THEN turned % numRays ELSE turned
             count == IF wrapped THEN s.clockwiseRotationCount + 1
                      ELSE s.clockwiseRotationCount
         IN [prog |-> [s EXCEPT !.currentAngle = angle,
                                !.clockwiseRotationCount = count,
                                !.phase = IF wrapped /\ count >= maxRotations
                                          THEN 3 ELSE 2],
             writes |-> pathWrites(lineAt(rows, cols, angle), CELL_CLAY)
                        \o pathWrites(lineAt(rows, cols, angle), CELL_BRICK)]
    [] s.phase = 3 ->
         LET turned == s.currentAngle - 1
             wrapped == turned <= -CCW_WRAP_STEPS
             angle == IF wrapped THEN -((-turned) % numRays) ELSE turned
             count == IF wrapped THEN s.counterclockwiseRotationCount + 1
                      ELSE s.counterclockwiseRotationCount
             toFill == wrapped /\ count >= maxRotations
         IN [prog |-> [s EXCEPT !.currentAngle = angle,
                                !.counterclockwiseRotationCount = count,
                                !.currentFillRay = IF toFill THEN 0 ELSE @,
                                !.phase = IF toFill THEN 4 ELSE 3],
             writes |-> pathWrites(lineAt(rows, cols, s.currentAngle), CELL_CLAY)
                        \o pathWrites(lineAt(rows, cols, angle),
                                      IF toFill THEN CELL_CLAY ELSE CELL_BRICK)]
    [] s.phase = 4 ->
         IF s.currentFillRay < numRays
         THEN [prog |-> [s EXCEPT !.currentFillRay = @ + 1],
               writes |-> pathWrites(clockwiseRays[<<rows, cols>>][s.currentFillRay + 1],
                                     CELL_BRICK)]
         ELSE [prog |-> [s EXCEPT !.phase = 5], writes |-> <<>>]
    [] OTHER -> [prog |-> s, writes |-> <<>>]

\* the switch of update (lines 1332-1403)
SwipeByRadiationStep(s, grid, rows, cols) ==
  CASE s.phase = 1 ->
         [prog |-> [s EXCEPT !.phase = 2],
          writes |-> pathWrites(lineAt(rows, cols, s.currentAngle), CELL_BRICK)]
    [] s.phase = 2 ->
         LET turned == s.currentAngle + 1
             wrapped == turned >= CW_WRAP_STEPS
             angle == IF wrapped THEN turned % numRays ELSE turned
             count == IF wrapped THEN s.clockwiseRotationCount + 1
                      ELSE s.clockwiseRotationCount
         IN [prog |-> [s EXCEPT !.currentAngle = angle,
                                !.clockwiseRotationCount = count,
                                !.phase = IF wrapped /\ count >= maxRotations
                                          THEN 3 ELSE 2],
             writes |-> pathWrites(lineAt(rows, cols, s.currentAngle), CELL_CLAY)
                        \o pathWrites(lineAt(rows, cols, angle), CELL_BRICK)]
    [] s.phase = 3 ->
         LET turned == s.currentAngle - 1
             wrapped == turned <= -CCW_WRAP_STEPS
             angle == IF wrapped THEN -((-turned) % numRays) ELSE turned
             count == IF wrapped THEN s.counterclockwiseRotationCount + 1
                      ELSE s.counterclockwiseRotationCount
             toFill == wrapped /\ count >= maxRotations
         IN [prog |-> [s EXCEPT !.currentAngle = angle,
                                !.counterclockwiseRotationCount = count,
                                !.currentFillRay = IF toFill THEN 0 ELSE @,
                                !.phase = IF toFill THEN 4 ELSE 3],
             writes |-> pathWrites(lineAt(rows, cols, s.currentAngle), CELL_CLAY)
                        \o pathWrites(lineAt(rows, cols, angle),
                                      IF toFill THEN CELL_CLAY ELSE CELL_BRICK)]
    [] s.phase = 4 ->
         IF s.currentFillRay < numRays
         THEN [prog |-> [s EXCEPT !.currentFillRay = @ + 1],
               writes |-> pathWrites(clockwiseRays[<<rows, cols>>][s.currentFillRay + 1],
                                     CELL_BRICK)]
         ELSE [prog |-> [s EXCEPT !.phase = 5], writes |-> <<>>]
    [] OTHER -> [prog |-> s, writes |-> <<>>]

\* isDone (lines 1406-1408)
SwipeByRadiationDone(s) == s.phase = 5

(***************************************************************************)
(* The program list.  Program objects are told apart by their position in  *)
(* programs (lines 1519-1528).                                             *)
(***************************************************************************)
ProgramIds == 0..(NumPrograms - 1)

\* the seven constructors of initializeGrid, in list order
newPrograms ==
  [i \in ProgramIds |->
     CASE i = 0 -> ScanByLineNew
       [] i = 1 -> ScanBySpiralNew
       [] i = 2 -> ScanByDiagonalNew
       [] i = 3 -> ScanByRadiationNew
       [] i = 4 -> SwipeByRadiationNew
       [] i = 5 -> SwipeByDiagonalNew
       [] i = 6 -> SwipeByLineNew]

\* programs[i].isDone()
isDone(i, s) ==
  CASE i = 0 -> ScanByLineDone(s)
    [] i = 1 -> ScanBySpiralDone(s)
    [] i = 2 -> ScanByDiagonalDone(s)
    [] i = 3 -> ScanByRadiationDone(s)
    [] i = 4 -> SwipeByRadiationDone(s)
    [] i = 5 -> SwipeByDiagonalDone(s)
    [] i = 6 -> SwipeByLineDone(s)

\* programs[i].reset(): the fields after it and the cell writes it issues
reset(i, s, rows, cols) ==
  CASE i = 0 -> ScanByLineReset(s, rows, cols)
    [] i = 1 -> ScanBySpiralReset(s, rows, cols)
    [] i = 2 -> ScanByDiagonalReset(s, rows, cols)
    [] i = 3 -> ScanByRadiationReset(s, rows, cols)
    [] i = 4 -> SwipeByRadiationReset(s, rows, cols)
    [] i = 5 -> SwipeByDiagonalReset(s, rows, cols)
    [] i = 6 -> SwipeByLineReset(s, rows, cols)

\* a variant of step that goes from the first scan or swipe straight to the
\* phase after the next
step_skipsPhase(i, s, grid, rows, cols) ==
  LET res == CASE i = 0 -> ScanByLineStep(s, grid, rows, cols)
               [] i = 1 -> ScanBySpiralStep(s, grid, rows, cols)
               [] i = 2 -> ScanByDiagonalStep(s, grid, rows, cols)
               [] i = 3 -> ScanByRadiationStep(s, grid, rows, cols)
               [] i = 4 -> SwipeByRadiationStep(s, grid, rows, cols)
               [] i = 5 -> SwipeByDiagonalStep(s, grid, rows, cols)
               [] i = 6 -> SwipeByLineStep(s, grid, rows, cols)
  IN IF s.phase = 2 /\ res.prog.phase = 3
     THEN [res EXCEPT !.prog.phase = 4]
     ELSE res

\* the switch (this.phase) of programs[i].update()
step(i, s, grid, rows, cols) ==
  CASE i = 0 -> ScanByLineStep(s, grid, rows, cols)
    [] i = 1 -> ScanBySpiralStep(s, grid, rows, cols)
    [] i = 2 -> ScanByDiagonalStep(s, grid, rows, cols)
    [] i = 3 -> ScanByRadiationStep(s, grid, rows, cols)
    [] i = 4 -> SwipeByRadiationStep(s, grid, rows, cols)
    [] i = 5 -> SwipeByDiagonalStep(s, grid, rows, cols)
    [] i = 6 -> SwipeByLineStep(s, grid, rows, cols)

\* a variant of update that tests the done guard after the speed throttle
update_lateGuard(i, s, grid, rows, cols, speed) ==
  IF s.frameCounter + speed < FrameUnit
  THEN [prog |-> [s EXCEPT !.frameCounter = @ + speed],
        writes |-> <<>>, stepped |-> FALSE]
  ELSE IF isDone(i, s)
       THEN [prog |-> [s EXCEPT !.frameCounter = (@ + speed) % FrameUnit],
             writes |-> <<>>, stepped |-> FALSE]
       ELSE LET res == step(i, [s EXCEPT !.frameCounter = (@ + speed) % FrameUnit],
                            grid, rows, cols)
            IN [prog |-> res.prog, writes |-> res.writes, stepped |-> TRUE]

\* a variant of update that enters the switch a second time in the same call
update_twoSteps(i, s, grid, rows, cols, speed) ==
  IF isDone(i, s) THEN [prog |-> s, writes |-> <<>>, stepped |-> FALSE]
  ELSE IF s.frameCounter + speed < FrameUnit
       THEN [prog |-> [s EXCEPT !.frameCounter = @ + speed],
             writes |-> <<>>, stepped |-> FALSE]
       ELSE LET res == step(i, [s EXCEPT !.frameCounter = (@ + speed) % FrameUnit],
                            grid, rows, cols)
                again == step(i, res.prog, applyWrites(grid, res.writes), rows, cols)
            IN [prog |-> again.prog, writes |-> res.writes \o again.writes,
                stepped |-> TRUE]

\* a variant of update that keeps the whole accumulator after a step
update_keepsAccumulator(i, s, grid, rows, cols, speed) ==
  IF isDone(i, s) THEN [prog |-> s, writes |-> <<>>, stepped |-> FALSE]
  ELSE IF s.frameCounter + speed < FrameUnit
       THEN [prog |-> [s EXCEPT !.frameCounter = @ + speed],
             writes |-> <<>>, stepped |-> FALSE]
       ELSE LET res == step(i, [s EXCEPT !.frameCounter = @ + speed],
                            grid, rows, cols)
            IN [prog |-> res.prog, writes |-> res.writes, stepped |-> TRUE]

\* programs[i].update() (lines 159-169 and alike in every class): the done
\* guard, the speed throttle on frameCounter, then one step of the switch.
\* stepped tells whether the switch was entered.
update(i, s, grid, rows, cols, speed) ==
  IF isDone(i, s) THEN [prog |-> s, writes |-> <<>>, stepped |-> FALSE]
  ELSE IF s.frameCounter + speed < FrameUnit
       THEN [prog |-> [s EXCEPT !.frameCounter = @ + speed],
             writes |-> <<>>, stepped |-> FALSE]
       ELSE LET res == step(i, [s EXCEPT !.frameCounter = (@ + speed) % FrameUnit],
                            grid, rows, cols)
            IN [prog |-> res.prog, writes |-> res.writes, stepped |-> TRUE]

(***************************************************************************)
(* The sketch: state of proliferationSketch (lines 1411-1435) and the      *)
(* module-level colour mode (lines 95-97).                                 *)
(***************************************************************************)
VARIABLES
  setupAt,             \* where p.setup stands: "start" (not yet called), "brick" and
                       \* "clay" (suspended at the await of that image), "done" (returned)
  canvasParentRef,     \* TRUE when it refers to an element, FALSE when it is null
  imagesLoaded,        \* set when p.setup resumes after loading the images
  actualRows,          \* grid dimensions in use
  actualCols,
  gridState,           \* the cells, [<<row, col>> -> CELL_CLAY | CELL_BRICK]
  programs,            \* [ProgramIds -> the fields of that program object], <<>> while empty
  currentProgramIndex,
  currentProgram,      \* the program object referred to, by its position in programs;
                       \* NoProgram while null
  isFrozen,
  freezeCounter,
  currentColorMode,
  useBrickGrayscale,
  useClayGrayscale,
  animationSpeed,      \* ANIMATION_SPEED, in units of 1/FrameUnit
  \* observation of the run, read by no handler:
  lastCall,            \* what the latest handler call did
  doneAge,             \* ticks since the tick that completed the active program, -1 if not done
  updatesSinceReset    \* update() calls on the active program since its reset() that found it not done

vars == <<setupAt, canvasParentRef, imagesLoaded, actualRows, actualCols, gridState, programs,
          currentProgramIndex, currentProgram, isFrozen, freezeCounter,
          currentColorMode, useBrickGrayscale, useClayGrayscale, animationSpeed,
          lastCall, doneAge, updatesSinceReset>>

engineVars == <<setupAt, canvasParentRef, imagesLoaded, actualRows, actualCols, gridState, programs,
                currentProgramIndex, currentProgram, isFrozen, freezeCounter,
                currentColorMode, useBrickGrayscale, useClayGrayscale, animationSpeed>>

\* a bound on updatesSinceReset: it stops counting one above the largest
\* number of calls a linear bound on the run length allows
StepBound(rows, cols) == 3 * rows * cols + 4 * numRays
CallCap(rows, cols) == StepBound(rows, cols) + 1

\* some write of the list names a cell outside the grid
outOfBounds(grid, writes) ==
  \E k \in 1..Len(writes) : <<writes[k][1], writes[k][2]>> \notin DOMAIN grid

\* the cells a list of writes paints BRICK, in the order of the writes
painted(writes) ==
  LET bricks == SelectSeq(writes, LAMBDA w : w[3] = CELL_BRICK)
  IN [k \in 1..Len(bricks) |-> <<bricks[k][1], bricks[k][2]>>] \o <<>>

Call(kind) ==
  [kind |-> kind, updateInvoked |-> FALSE, onDone |-> FALSE, stepped |-> FALSE,
   colorChanged |-> FALSE, switched |-> FALSE, switchAge |-> -1,
   completedIndex |-> -1, oob |-> FALSE]

\* a variant of updateColorMode that advances the mode without wrapping it
updateColorMode_nowrap(mode) ==
  LET m == mode + 1
  IN <<m, m = 1 \/ m = 3, m = 2 \/ m = 3>>

\* updateColorMode (lines 1445-1471): <<mode, useBrickGrayscale, useClayGrayscale>>
updateColorMode(mode) ==
  LET m == (mode + 1) % 4
  IN <<m, m = 1 \/ m = 3, m = 2 \/ m = 3>>

\* initializeGrid (lines 1514-1532): the new grid, the new program list and
\* the index of the program that is reset and started
initializeGrid(rows, cols) ==
  LET started == 0
      r == reset(started, newPrograms[started], rows, cols)
  IN [grid |-> applyWrites(newGrid(rows, cols), r.writes),
      programs |-> [newPrograms EXCEPT ![started] = r.prog],
      index |-> started,
      oob |-> outOfBounds(newGrid(rows, cols), r.writes)]

\* the rows and columns initializeGrid can find: the initial ones of lines
\* 1426-1427 and those calculateDimensions computes for the canvases tried
GridShapes ==
  {<<TARGET_ROWS, TARGET_COLS>>} \cup
  {calculateDimensions(w, h, FIX_ROWS) : w \in CanvasWidths, h \in CanvasHeights} \cup
  UNION {{calculateDimensions(w, h, fixRows) : w \in CanvasSides, h \in CanvasSides} :
           fixRows \in BOOLEAN}

\* initializeGrid for each of these shapes
initializedGrid == [shape \in GridShapes |-> initializeGrid(shape[1], shape[2])]

\* "if (freezeCounter >= FREEZE_DURATION)" (line 1649), a variant with a
\* strict comparison, and the test itself
freezeComplete_late(counter) == counter > FREEZE_DURATION

freezeComplete(counter) == counter >= FREEZE_DURATION

\* a variant of nextProgramChoices whose loop stops at the first draw
nextProgramChoices_any(current) == ProgramIds

\* a variant of nextProgramChoices that takes the next index in list order
nextProgramChoices_successor(current) == {(current + 1) % NumPrograms}

\* the do-while of p.draw (lines 1654-1657): the values nextProgramIndex can
\* leave the loop with
nextProgramChoices(current) ==
  {n \in ProgramIds : ~(n = current /\ NumPrograms > 1)}

\* the count an update() call leaves in updatesSinceReset
counted(i, s, count, rows, cols) ==
  IF isDone(i, s) \/ s.phase = 0 THEN count
  ELSE Min(count + 1, CallCap(rows, cols))

(***************************************************************************)
(* The sketch as proliferationSketch constructs it (lines 1411-1435) and   *)
(* p.setup (lines 1534-1622).  p.setup is async: it looks for the parent   *)
(* element, creates the canvas, and is then suspended at each of its two   *)
(* awaits of p.loadImage, where p.draw and p.windowResized can run.  When  *)
(* it resumes for the last time it sets imagesLoaded and runs              *)
(* calculateDimensions, initializeGrid and updateColorMode in one piece.   *)
(* The colour mode and the two grayscale flags are module-level (lines     *)
(* 95-97): a sketch finds them as the module initialised them or as an     *)
(* earlier sketch of the module left them.                                 *)
(***************************************************************************)
InitialColorMode == 3

\* currentProgram = null (line 1431); it holds a program index otherwise
NoProgram == -1

\* <<currentColorMode, useBrickGrayscale, useClayGrayscale>> as a new sketch
\* can find them: the initial values of lines 95-97, or what the last
\* updateColorMode of an earlier sketch left
ModuleColorStates ==
  {<<InitialColorMode, FALSE, FALSE>>} \cup {updateColorMode(m) : m \in 0..3}

\* the state after the body of proliferationSketch ran (lines 1411-1435),
\* p.setup not yet called
SketchWith(color, speed, call) ==
  /\ setupAt = "start"
  /\ canvasParentRef = FALSE
  /\ imagesLoaded = FALSE
  /\ actualRows = TARGET_ROWS
  /\ actualCols = TARGET_COLS
  /\ gridState = <<>>
  /\ programs = <<>>
  /\ currentProgramIndex = 0
  /\ currentProgram = NoProgram
  /\ isFrozen = FALSE
  /\ freezeCounter = 0
  /\ currentColorMode = color[1]
  /\ useBrickGrayscale = color[2]
  /\ useClayGrayscale = color[3]
  /\ animationSpeed = speed
  /\ lastCall = call
  /\ doneAge = -1
  /\ updatesSinceReset = 0

Init ==
  \E color \in ModuleColorStates :
    SketchWith(color, ANIMATION_SPEED_UNITS, Call("new"))

\* p.setup from its call to its first suspension (lines 1534-1566): with a
\* parent element it sets canvasParentRef, creates the canvas and awaits the
\* brick image; without one it returns
SetupStart ==
  /\ setupAt = "start"
  /\ \E found \in BOOLEAN :
       /\ canvasParentRef' = found
       /\ setupAt' = IF found THEN "brick" ELSE "done"
  /\ lastCall' = Call("setupStart")
  /\ UNCHANGED <<imagesLoaded, actualRows, actualCols, gridState, programs,
                 currentProgramIndex, currentProgram, isFrozen, freezeCounter,
                 currentColorMode, useBrickGrayscale, useClayGrayscale,
                 animationSpeed, doneAge, updatesSinceReset>>

\* the brick image arrived: p.setup resumes and awaits the clay image
\* (lines 1566-1567)
ImageLoaded ==
  /\ setupAt = "brick"
  /\ setupAt' = "clay"
  /\ lastCall' = Call("image")
  /\ UNCHANGED <<canvasParentRef, imagesLoaded, actualRows, actualCols, gridState,
                 programs, currentProgramIndex, currentProgram, isFrozen,
                 freezeCounter, currentColorMode, useBrickGrayscale,
                 useClayGrayscale, animationSpeed, doneAge, updatesSinceReset>>

\* the rest of p.setup once its last await settled (lines 1567-1621):
\* imagesLoaded, calculateDimensions giving dims, initializeGrid,
\* updateColorMode
SetupWith(loaded, dims, call) ==
  \E g \in {initializedGrid[dims]} :
  \E cm \in {updateColorMode(currentColorMode)} :
     /\ setupAt' = "done"
     /\ imagesLoaded' = loaded
     /\ actualRows' = dims[1]
     /\ actualCols' = dims[2]
     /\ gridState' = g.grid
     /\ programs' = g.programs
     /\ currentProgramIndex' = g.index
     /\ currentProgram' = g.index
     /\ currentColorMode' = cm[1]
     /\ useBrickGrayscale' = cm[2]
     /\ useClayGrayscale' = cm[3]
     /\ lastCall' = [call EXCEPT !.oob = g.oob]
     /\ doneAge' = -1
     /\ updatesSinceReset' = 0
     /\ UNCHANGED <<canvasParentRef, isFrozen, freezeCounter, animationSpeed>>

\* the outcomes of the try block (lines 1565-1614) p.setup can resume with:
\* a rejected await or a throw gives FALSE, TRUE needs both images
LoadOutcomes == {loaded \in BOOLEAN : loaded => setupAt = "clay"}

SetupFinish ==
  /\ setupAt \in {"brick", "clay"}
  /\ \E loaded \in LoadOutcomes, w \in CanvasWidths, h \in CanvasHeights :
     \E dims \in {calculateDimensions(w, h, FIX_ROWS)} :
       SetupWith(loaded, dims, Call("setup"))

\* a variant of Tick that goes on to the scheduler whether or not the images
\* are loaded
Tick_withoutGate ==
  /\ IF (~imagesLoaded /\ ~TRUE) \/ currentProgram = NoProgram
     THEN /\ lastCall' = Call("tick")
          /\ UNCHANGED <<engineVars, doneAge, updatesSinceReset>>
     ELSE
       \E u \in {update(currentProgram, programs[currentProgram], gridState,
                        actualRows, actualCols, animationSpeed)} :
         LET i == currentProgram
             wasDone == isDone(i, programs[i])
             done == isDone(i, u.prog)
             age == IF ~done THEN -1 ELSE IF wasDone THEN doneAge + 1 ELSE 0
             call == [Call("tick") EXCEPT !.updateInvoked = TRUE, !.onDone = wasDone,
                                          !.stepped = u.stepped,
                                          !.oob = outOfBounds(gridState, u.writes)]
             calls == counted(i, programs[i], updatesSinceReset, actualRows, actualCols)
         IN IF ~done
            THEN /\ programs' = [programs EXCEPT ![i] = u.prog]
                 /\ gridState' = applyWrites(gridState, u.writes)
                 /\ lastCall' = call
                 /\ doneAge' = age
                 /\ updatesSinceReset' = calls
                 /\ UNCHANGED <<setupAt, canvasParentRef, imagesLoaded, actualRows, actualCols, currentProgramIndex,
                                currentProgram, isFrozen, freezeCounter, currentColorMode,
                                useBrickGrayscale, useClayGrayscale, animationSpeed>>
            ELSE IF ~isFrozen
            THEN /\ programs' = [programs EXCEPT ![i] = u.prog]
                 /\ gridState' = applyWrites(gridState, u.writes)
                 /\ isFrozen' = TRUE
                 /\ freezeCounter' = 0
                 /\ lastCall' = call
                 /\ doneAge' = age
                 /\ updatesSinceReset' = calls
                 /\ UNCHANGED <<setupAt, canvasParentRef, imagesLoaded, actualRows, actualCols, currentProgramIndex,
                                currentProgram, currentColorMode, useBrickGrayscale,
                                useClayGrayscale, animationSpeed>>
            ELSE IF freezeComplete(freezeCounter + 1)
            THEN \E nextProgramIndex \in nextProgramChoices(currentProgramIndex) :
                 \E cm \in {updateColorMode(currentColorMode)} :
                 \E r \in {reset(nextProgramIndex,
                                 [programs EXCEPT ![i] = u.prog][nextProgramIndex],
                                 actualRows, actualCols)} :
                    /\ currentColorMode' = cm[1]
                    /\ useBrickGrayscale' = cm[2]
                    /\ useClayGrayscale' = cm[3]
                    /\ currentProgramIndex' = nextProgramIndex
                    /\ currentProgram' = nextProgramIndex
                    /\ programs' = [programs EXCEPT ![i] = u.prog,
                                                    ![nextProgramIndex] = r.prog]
                    /\ gridState' = applyWrites(gridState, u.writes \o r.writes)
                    /\ isFrozen' = FALSE
                    /\ freezeCounter' = 0
                    /\ lastCall' = [call EXCEPT
                                      !.colorChanged = TRUE, !.switched = TRUE,
                                      !.switchAge = age,
                                      !.completedIndex = currentProgramIndex,
                                      !.oob = @ \/ outOfBounds(gridState, r.writes)]
                    /\ doneAge' = -1
                    /\ updatesSinceReset' = 0
                    /\ UNCHANGED <<setupAt, canvasParentRef, imagesLoaded, actualRows, actualCols, animationSpeed>>
            ELSE /\ programs' = [programs EXCEPT ![i] = u.prog]
                 /\ gridState' = applyWrites(gridState, u.writes)
                 /\ freezeCounter' = freezeCounter + 1
                 /\ lastCall' = call
                 /\ doneAge' = age
                 /\ updatesSinceReset' = calls
                 /\ UNCHANGED <<setupAt, canvasParentRef, imagesLoaded, actualRows, actualCols, currentProgramIndex,
                                currentProgram, isFrozen, currentColorMode,
                                useBrickGrayscale, useClayGrayscale, animationSpeed>>

(***************************************************************************)
(* p.draw (lines 1624-1669), the scheduler part: one tick.                 *)
(***************************************************************************)
Tick ==
  /\ IF ~imagesLoaded \/ currentProgram = NoProgram
     THEN /\ lastCall' = Call("tick")
          /\ UNCHANGED <<engineVars, doneAge, updatesSinceReset>>
     ELSE
       \E u \in {update(currentProgram, programs[currentProgram], gridState,
                        actualRows, actualCols, animationSpeed)} :
         LET i == currentProgram
             wasDone == isDone(i, programs[i])
             done == isDone(i, u.prog)
             age == IF ~done THEN -1 ELSE IF wasDone THEN doneAge + 1 ELSE 0
             call == [Call("tick") EXCEPT !.updateInvoked = TRUE, !.onDone = wasDone,
                                          !.stepped = u.stepped,
                                          !.oob = outOfBounds(gridState, u.writes)]
             calls == counted(i, programs[i], updatesSinceReset, actualRows, actualCols)
         IN IF ~done
            THEN /\ programs' = [programs EXCEPT ![i] = u.prog]
                 /\ gridState' = applyWrites(gridState, u.writes)
                 /\ lastCall' = call
                 /\ doneAge' = age
                 /\ updatesSinceReset' = calls
                 /\ UNCHANGED <<setupAt, canvasParentRef, imagesLoaded, actualRows, actualCols, currentProgramIndex,
                                currentProgram, isFrozen, freezeCounter, currentColorMode,
                                useBrickGrayscale, useClayGrayscale, animationSpeed>>
            ELSE IF ~isFrozen
            THEN /\ programs' = [programs EXCEPT ![i] = u.prog]
                 /\ gridState' = applyWrites(gridState, u.writes)
                 /\ isFrozen' = TRUE
                 /\ freezeCounter' = 0
                 /\ lastCall' = call
                 /\ doneAge' = age
                 /\ updatesSinceReset' = calls
                 /\ UNCHANGED <<setupAt, canvasParentRef, imagesLoaded, actualRows, actualCols, currentProgramIndex,
                                currentProgram, currentColorMode, useBrickGrayscale,
                                useClayGrayscale, animationSpeed>>
            ELSE IF freezeComplete(freezeCounter + 1)
            THEN \E nextProgramIndex \in nextProgramChoices(currentProgramIndex) :
                 \E cm \in {updateColorMode(currentColorMode)} :
                 \E r \in {reset(nextProgramIndex,
                                 [programs EXCEPT ![i] = u.prog][nextProgramIndex],
                                 actualRows, actualCols)} :
                    /\ currentColorMode' = cm[1]
                    /\ useBrickGrayscale' = cm[2]
                    /\ useClayGrayscale' = cm[3]
                    /\ currentProgramIndex' = nextProgramIndex
                    /\ currentProgram' = nextProgramIndex
                    /\ programs' = [programs EXCEPT ![i] = u.prog,
                                                    ![nextProgramIndex] = r.prog]
                    /\ gridState' = applyWrites(gridState, u.writes \o r.writes)
                    /\ isFrozen' = FALSE
                    /\ freezeCounter' = 0
                    /\ lastCall' = [call EXCEPT
                                      !.colorChanged = TRUE, !.switched = TRUE,
                                      !.switchAge = age,
                                      !.completedIndex = currentProgramIndex,
                                      !.oob = @ \/ outOfBounds(gridState, r.writes)]
                    /\ doneAge' = -1
                    /\ updatesSinceReset' = 0
                    /\ UNCHANGED <<setupAt, canvasParentRef, imagesLoaded, actualRows, actualCols, animationSpeed>>
            ELSE /\ programs' = [programs EXCEPT ![i] = u.prog]
                 /\ gridState' = applyWrites(gridState, u.writes)
                 /\ freezeCounter' = freezeCounter + 1
                 /\ lastCall' = call
                 /\ doneAge' = age
                 /\ updatesSinceReset' = calls
                 /\ UNCHANGED <<setupAt, canvasParentRef, imagesLoaded, actualRows, actualCols, currentProgramIndex,
                                currentProgram, isFrozen, currentColorMode,
                                useBrickGrayscale, useClayGrayscale, animationSpeed>>

(***************************************************************************)
(* p.windowResized (lines 1714-1717): calculateDimensions, initializeGrid. *)
(***************************************************************************)
\* calculateDimensions() as the handlers call it, for a parent element of
\* w x h: "if (!canvasParentRef) return" (line 1474) leaves the dimensions
measured(w, h, fixRows) ==
  IF canvasParentRef THEN calculateDimensions(w, h, fixRows)
  ELSE <<actualRows, actualCols>>

Resize ==
  \E w \in CanvasWidths, h \in CanvasHeights :
  \E dims \in {measured(w, h, FIX_ROWS)} :
  \E g \in {initializedGrid[dims]} :
    /\ actualRows' = dims[1]
    /\ actualCols' = dims[2]
    /\ gridState' = g.grid
    /\ programs' = g.programs
    /\ currentProgramIndex' = g.index
    /\ currentProgram' = g.index
    /\ lastCall' = [Call("resize") EXCEPT !.oob = g.oob]
    /\ doneAge' = -1
    /\ updatesSinceReset' = 0
    /\ UNCHANGED <<setupAt, canvasParentRef, imagesLoaded, isFrozen, freezeCounter, currentColorMode,
                   useBrickGrayscale, useClayGrayscale, animationSpeed>>

(***************************************************************************)
(* The other sketches of the module.  proliferationSketch (line 1411) is   *)
(* exported and makes a sketch each time it is called; the colour mode and *)
(* the grayscale flags (lines 95-97) are shared by all of them.  When      *)
(* another sketch runs updateColorMode(), at the end of its p.setup (line  *)
(* 1621) or in the freeze-completing branch of its p.draw (line 1651),     *)
(* these three variables change between two calls of this sketch's         *)
(* handlers; nothing else of this sketch does.                             *)
(***************************************************************************)
OtherSketchUpdatesColorMode ==
  \E cm \in {updateColorMode(currentColorMode)} :
    /\ currentColorMode' = cm[1]
    /\ useBrickGrayscale' = cm[2]
    /\ useClayGrayscale' = cm[3]
    /\ UNCHANGED <<setupAt, canvasParentRef, imagesLoaded, actualRows, actualCols,
                   gridState, programs, currentProgramIndex, currentProgram,
                   isFrozen, freezeCounter, animationSpeed, lastCall, doneAge,
                   updatesSinceReset>>

Next ==
  SetupStart \/ ImageLoaded \/ SetupFinish \/ Tick \/ Resize
    \/ OtherSketchUpdatesColorMode

\* the engine: p.setup and the ticks of the frame clock interleaved with resize
\* events and with the colour-mode changes other sketches make
Spec == Init /\ [][Next]_vars

\* the engine in executions without resize events
TickNext ==
  SetupStart \/ ImageLoaded \/ SetupFinish \/ Tick \/ OtherSketchUpdatesColorMode
NoResizeSpec == Init /\ [][TickNext]_vars

\* the engine without resize events, its frame clock never stopping: p5 calls
\* p.draw on every frame for as long as the sketch exists
LiveSpec == Init /\ [][TickNext]_vars /\ WF_vars(Tick)

(***************************************************************************)
(* One program object driven through its public interface: constructed for *)
(* any dimensions, then reset() and update() called in any order.          *)
(***************************************************************************)
\* the values of ANIMATION_SPEED the harness runs with: 0.5 and 1
HarnessSpeeds == {ANIMATION_SPEED_UNITS \div 2, ANIMATION_SPEED_UNITS}

ProgInit ==
  \E d \in HarnessDims, i \in ProgramIds, speed \in HarnessSpeeds :
    /\ setupAt = "done"
    /\ canvasParentRef = TRUE
    /\ imagesLoaded = TRUE
    /\ actualRows = d[1]
    /\ actualCols = d[2]
    /\ gridState = newGrid(d[1], d[2])
    /\ programs = newPrograms
    /\ currentProgramIndex = i
    /\ currentProgram = i
    /\ isFrozen = FALSE
    /\ freezeCounter = 0
    /\ currentColorMode = InitialColorMode
    /\ useBrickGrayscale = FALSE
    /\ useClayGrayscale = FALSE
    /\ animationSpeed = speed
    /\ lastCall = Call("new")
    /\ doneAge = -1
    /\ updatesSinceReset = 0

\* currentProgram.reset()
CallReset ==
  \E r \in {reset(currentProgram, programs[currentProgram], actualRows, actualCols)} :
     /\ programs' = [programs EXCEPT ![currentProgram] = r.prog]
     /\ gridState' = applyWrites(gridState, r.writes)
     /\ lastCall' = [Call("reset") EXCEPT
                       !.onDone = isDone(currentProgram, programs[currentProgram]),
                       !.oob = outOfBounds(gridState, r.writes)]
     /\ updatesSinceReset' = 0
     /\ UNCHANGED <<setupAt, canvasParentRef, imagesLoaded, actualRows, actualCols, currentProgramIndex,
                    currentProgram, isFrozen, freezeCounter, currentColorMode,
                    useBrickGrayscale, useClayGrayscale, animationSpeed, doneAge>>

\* currentProgram.update()
CallUpdate ==
  \E u \in {update(currentProgram, programs[currentProgram], gridState,
                   actualRows, actualCols, animationSpeed)} :
     /\ programs' = [programs EXCEPT ![currentProgram] = u.prog]
     /\ gridState' = applyWrites(gridState, u.writes)
     /\ lastCall' = [painted |-> painted(u.writes)] @@
                     [Call("update") EXCEPT
                        !.updateInvoked = TRUE,
                        !.onDone = isDone(currentProgram, programs[currentProgram]),
                        !.stepped = u.stepped,
                        !.oob = outOfBounds(gridState, u.writes)]
     /\ updatesSinceReset' = counted(currentProgram, programs[currentProgram],
                                     updatesSinceReset, actualRows, actualCols)
     /\ UNCHANGED <<setupAt, canvasParentRef, imagesLoaded, actualRows, actualCols, currentProgramIndex,
                    currentProgram, isFrozen, freezeCounter, currentColorMode,
                    useBrickGrayscale, useClayGrayscale, animationSpeed, doneAge>>

ProgNext == CallReset \/ CallUpdate

ProgSpec == ProgInit /\ [][ProgNext]_vars

(***************************************************************************)
(* The grid written through updateGridCell with any coordinates, inside    *)
(* the grid or one step outside it, starting from the grid initializeGrid  *)
(* builds.                                                                 *)
(***************************************************************************)
\* the number of writes tried in a row
MaxWrites == 2
\* the grids written to: up to TARGET_ROWS rows
WriteDims == {d \in HarnessDims : d[1] <= TARGET_ROWS}

WriteInit ==
  \E d \in WriteDims :
    /\ setupAt = "done"
    /\ canvasParentRef = TRUE
    /\ imagesLoaded = TRUE
    /\ actualRows = d[1]
    /\ actualCols = d[2]
    /\ gridState = newGrid(d[1], d[2])
    /\ programs = newPrograms
    /\ currentProgramIndex = 0
    /\ currentProgram = 0
    /\ isFrozen = FALSE
    /\ freezeCounter = 0
    /\ currentColorMode = InitialColorMode
    /\ useBrickGrayscale = FALSE
    /\ useClayGrayscale = FALSE
    /\ animationSpeed = ANIMATION_SPEED_UNITS
    /\ lastCall = [count |-> 0] @@ Call("new")
    /\ doneAge = -1
    /\ updatesSinceReset = 0

\* updateGridCell(row, col, value); the call, and the grid it found, are recorded
WriteCell ==
  /\ lastCall.count < MaxWrites
  /\ \E row \in (-1)..actualRows, col \in (-1)..actualCols,
        value \in {CELL_CLAY, CELL_BRICK} :
       /\ gridState' = updateGridCell(gridState, row, col, value)
       /\ lastCall' = [count |-> lastCall.count + 1, row |-> row, col |-> col,
                       value |-> value, before |-> gridState] @@ Call("write")
  /\ UNCHANGED <<setupAt, canvasParentRef, imagesLoaded, actualRows, actualCols, programs, currentProgramIndex,
                 currentProgram, isFrozen, freezeCounter, currentColorMode,
                 useBrickGrayscale, useClayGrayscale, animationSpeed, doneAge,
                 updatesSinceReset>>

WriteNext == WriteCell

WriteSpec == WriteInit /\ [][WriteNext]_vars

(***************************************************************************)
(* calculateDimensions and initializeGrid for canvases of any shape and    *)
(* for both settings of FIX_ROWS: p.setup and windowResized events.        *)
(***************************************************************************)
\* the note of a call in a build with FIX_ROWS = lastCall.fixRows, the parent
\* element being w x h when the call measured it
DimCall(kind, w, h) ==
  [fixRows |-> lastCall.fixRows, w |-> w, h |-> h] @@ Call(kind)

\* a new sketch in a build with FIX_ROWS = fixRows
DimInit ==
  \E fixRows \in BOOLEAN, color \in ModuleColorStates :
    SketchWith(color, ANIMATION_SPEED_UNITS,
               [fixRows |-> fixRows, w |-> 0, h |-> 0] @@ Call("new"))

\* p.setup up to its first await
DimSetupStart ==
  /\ setupAt = "start"
  /\ \E found \in BOOLEAN :
       /\ canvasParentRef' = found
       /\ setupAt' = IF found THEN "brick" ELSE "done"
  /\ lastCall' = DimCall("setupStart", 0, 0)
  /\ UNCHANGED <<imagesLoaded, actualRows, actualCols, gridState, programs,
                 currentProgramIndex, currentProgram, isFrozen, freezeCounter,
                 currentColorMode, useBrickGrayscale, useClayGrayscale,
                 animationSpeed, doneAge, updatesSinceReset>>

\* p.setup from its first await to its second
DimImageLoaded ==
  /\ setupAt = "brick"
  /\ setupAt' = "clay"
  /\ lastCall' = DimCall("image", lastCall.w, lastCall.h)
  /\ UNCHANGED <<canvasParentRef, imagesLoaded, actualRows, actualCols, gridState,
                 programs, currentProgramIndex, currentProgram, isFrozen,
                 freezeCounter, currentColorMode, useBrickGrayscale,
                 useClayGrayscale, animationSpeed, doneAge, updatesSinceReset>>

\* p.setup resumes with a parent element of w x h
DimSetupFinish ==
  /\ setupAt \in {"brick", "clay"}
  /\ \E loaded \in LoadOutcomes, w \in CanvasSides, h \in CanvasSides :
     \E dims \in {calculateDimensions(w, h, lastCall.fixRows)} :
       SetupWith(loaded, dims, DimCall("setup", w, h))

\* p.windowResized with a parent element of w x h
DimResize ==
  \E w \in CanvasSides, h \in CanvasSides :
  \E dims \in {measured(w, h, lastCall.fixRows)} :
  \E g \in {initializedGrid[dims]} :
    /\ actualRows' = dims[1]
    /\ actualCols' = dims[2]
    /\ gridState' = g.grid
    /\ programs' = g.programs
    /\ currentProgramIndex' = g.index
    /\ currentProgram' = g.index
    /\ lastCall' = [DimCall("resize", w, h) EXCEPT !.oob = g.oob]
    /\ doneAge' = -1
    /\ updatesSinceReset' = 0
    /\ UNCHANGED <<setupAt, canvasParentRef, imagesLoaded, isFrozen, freezeCounter,
                   currentColorMode, useBrickGrayscale, useClayGrayscale,
                   animationSpeed>>

DimNext ==
  DimSetupStart \/ DimImageLoaded \/ DimSetupFinish \/ DimResize
    \/ OtherSketchUpdatesColorMode

DimSpec == DimInit /\ [][DimNext]_vars

(***************************************************************************)
(* Properties.                                                             *)
(***************************************************************************)
AllBrick == \A pos \in DOMAIN gridState : gridState[pos] = CELL_BRICK
AllClay == \A pos \in DOMAIN gridState : gridState[pos] = CELL_CLAY
\* there is an active program and its isDone() is true
activeDone ==
  currentProgram # NoProgram /\ isDone(currentProgram, programs[currentProgram])

\* C1: for each of the seven programs and all dimensions, once the program
\* driven from reset() reports isDone(), every cell of the grid is BRICK.
C1_DoneGridAllBrick == activeDone => AllBrick

\* the update() call that completed a program on a grid of several rows and
\* columns
C1_Witness ==
  /\ lastCall.kind = "update" /\ ~lastCall.onDone /\ activeDone
  /\ actualRows > 1 /\ actualCols > 1 /\ AllBrick

\* C2: with ANIMATION_SPEED = 1, a program that was reset and is not done yet
\* has received fewer than StepBound(rows, cols) = 3*rows*cols + 96 update()
\* calls: repeated update() makes isDone() true within a number of calls
\* that is linear in rows*cols.
C2_DoneWithinLinearBound ==
  (animationSpeed = ANIMATION_SPEED_UNITS /\ ~activeDone)
     => updatesSinceReset < StepBound(actualRows, actualCols)

\* a program completed by the update() call that follows at least
\* 3*rows*cols - 1 others
C2_Witness ==
  /\ animationSpeed = ANIMATION_SPEED_UNITS
  /\ lastCall.kind = "update" /\ ~lastCall.onDone /\ activeDone
  /\ updatesSinceReset >= 3 * actualRows * actualCols

\* C3: without resize events, a program that became done on tick T is
\* followed by no switch on ticks T+1 .. T+19, and tick T+20 switches to the
\* next program and resets it.
C3_SwitchOnTwentiethTick ==
  /\ doneAge <= FREEZE_DURATION - 1
  /\ lastCall.switched =>
        /\ lastCall.switchAge = FREEZE_DURATION
        /\ programs[currentProgram].phase = 1
        /\ AllClay

\* the tick that switched, 20 ticks after the completion
C3_Witness ==
  /\ lastCall.switched /\ lastCall.switchAge = FREEZE_DURATION
  /\ programs[currentProgram].phase = 1

\* C4: with resize events at any earlier time, the next program's reset()
\* does not happen before the 20th tick after the tick on which the active
\* program became done.
C4_FreezeLastsTwentyTicks ==
  lastCall.switched => lastCall.switchAge >= FREEZE_DURATION

\* C5: after a resize event the engine is in the state of a fresh start for
\* the new dimensions: grid all CLAY, programs rebuilt, program 0 active in
\* its first phase, not frozen, freeze counter 0.
C5_ResizeIsFreshStart ==
  lastCall.kind = "resize" =>
     /\ AllClay
     /\ programs = initializeGrid(actualRows, actualCols).programs
     /\ currentProgramIndex = 0 /\ currentProgram = 0
     /\ programs[0].phase = 1
     /\ ~isFrozen
     /\ freezeCounter = 0

\* C6: a switch at the end of a freeze period activates a program whose
\* index differs from the index of the program that completed, and the
\* program list holds 7 programs from the first initializeGrid on (it is
\* empty until then, and there is no switch on an empty list).
C6_NextProgramDiffers ==
  /\ (currentProgram # NoProgram \/ lastCall.switched) => DOMAIN programs = 0..6
  /\ DOMAIN programs \in {{}, 0..6}
  /\ lastCall.switched => /\ currentProgramIndex # lastCall.completedIndex
                          /\ currentProgramIndex \in DOMAIN programs

\* the tick that switched from program 3 to program 5
C6_Witness ==
  lastCall.switched /\ lastCall.completedIndex = 3 /\ currentProgramIndex = 5

\* C7: the colour mode is always in 0..3; the tick that completes a freeze
\* period advances it by 1 modulo 4; every other tick and every resize
\* leaves it unchanged.
C7_ColorModeCycle ==
  /\ [](currentColorMode \in 0..3)
  /\ [][/\ Tick => IF lastCall'.switched
                    THEN currentColorMode' = (currentColorMode + 1) % 4
                    ELSE currentColorMode' = currentColorMode
        /\ Resize => currentColorMode' = currentColorMode]_vars

\* the freeze-completing tick that wrapped the colour mode from 3 to 0
C7_Witness ==
  lastCall.switched /\ lastCall.colorChanged /\ currentColorMode = 0

\* C8: once the active program has reported isDone() the scheduler makes no
\* further update() call on it: on a tick that finds the active program done,
\* update() is not invoked.
C8_NoUpdateWhenDone ==
  (lastCall.kind = "tick" /\ lastCall.onDone) => ~lastCall.updateInvoked

\* C9: on every tick from the one on which the active program becomes done
\* up to, not including, the one that resets the next program, the grid is
\* all BRICK, and no cell changes on the ticks after the first.
C9_GridKeptDuringFreeze ==
  [][(Tick /\ activeDone')
        => /\ AllBrick'
           /\ activeDone => gridState' = gridState]_vars

\* the last tick of a freeze period before the switch
C9_Witness ==
  /\ lastCall.kind = "tick" /\ lastCall.onDone /\ activeDone /\ AllBrick
  /\ isFrozen /\ freezeCounter = FREEZE_DURATION - 1

\* C10: update() on a program whose isDone() is true changes no cell of the
\* grid and no field of the program, however often it is called.
C10_UpdateWhenDoneChangesNothing ==
  [][(lastCall'.kind = "update" /\ activeDone)
        => (programs' = programs /\ gridState' = gridState)]_vars

\* an update() call on a done program at half speed, where a call on a
\* running program would move the frame accumulator
C10_Witness ==
  /\ lastCall.kind = "update" /\ lastCall.onDone /\ activeDone
  /\ animationSpeed < FrameUnit
  /\ updatesSinceReset > 0

\* C11: reset() called in any reachable state of a program leaves the grid
\* all CLAY, the program in phase 1 and not done, and every other field
\* (cursors, directions, counters, lastBrickPos, frame accumulator) at the
\* value it has in a newly constructed program.
C11_ResetRestoresInitialState ==
  lastCall.kind = "reset" =>
     /\ AllClay
     /\ ~activeDone
     /\ programs[currentProgram] = [newPrograms[currentProgram] EXCEPT !.phase = 1]

\* reset() called on a program that was done
C11_Witness ==
  /\ lastCall.kind = "reset" /\ lastCall.onDone
  /\ AllClay /\ programs[currentProgram].phase = 1

\* C12: a tick performs at most one of: a logical step of the active
\* program, a colour-mode change, a switch-and-reset to another program; in
\* particular no tick both steps the program and resets the next one.
C12_OneEffectPerTick ==
  lastCall.kind = "tick" =>
     /\ ~(lastCall.stepped /\ lastCall.colorChanged)
     /\ ~(lastCall.stepped /\ lastCall.switched)
     /\ ~(lastCall.colorChanged /\ lastCall.switched)

\* the cells of the grid of the current dimensions
Cells == (0..(actualRows - 1)) \X (0..(actualCols - 1))

\* path lists every cell of the grid exactly once and nothing else
IsPermutationOfCells(path) ==
  /\ Len(path) = actualRows * actualCols
  /\ \A k \in 1..Len(path) : path[k] \in Cells
  /\ \A j, k \in 1..Len(path) : path[j] = path[k] => j = k
  /\ Range(path) = Cells

\* C13: for all dimensions the spiral path has exactly rows*cols positions,
\* all inside the grid, every cell exactly once, and it begins at
\* (floor(rows/2), max(0, floor(cols/2) - 1)).
C13_SpiralPathIsPermutation ==
  LET path == spiralPositions[<<actualRows, actualCols>>]
  IN /\ IsPermutationOfCells(path)
     /\ path[1] = <<Half(actualRows), Max(0, Half(actualCols) - 1)>>

\* the first step of ScanBySpiral on a 3 x 4 grid: the start cell is painted
C13_Witness ==
  /\ currentProgram = 1 /\ actualRows = 3 /\ actualCols = 4
  /\ lastCall.kind = "update" /\ lastCall.stepped
  /\ programs[1].phase = 1 /\ programs[1].spiralIndex = 1
  /\ gridState[<<1, 1>>] = CELL_BRICK

\* C14: for all dimensions each diagonal path is a permutation of the
\* cells; family 1 runs by r+c ascending from 0 to rows+cols-2 and by
\* ascending r within a sum; family 2 runs by c-r descending from cols-1 to
\* -(rows-1) and by ascending r within a difference; each family has
\* rows+cols-1 non-empty groups.
C14_DiagonalPathsOrdered ==
  LET d1 == diagonal1Positions[<<actualRows, actualCols>>]
      d2 == diagonal2Positions[<<actualRows, actualCols>>]
      sum(p) == p[1] + p[2]
      diff(p) == p[2] - p[1]
  IN /\ IsPermutationOfCells(d1)
     /\ IsPermutationOfCells(d2)
     /\ \A k \in 1..(Len(d1) - 1) :
           \/ sum(d1[k]) < sum(d1[k + 1])
           \/ sum(d1[k]) = sum(d1[k + 1]) /\ d1[k][1] < d1[k + 1][1]
     /\ \A k \in 1..(Len(d2) - 1) :
           \/ diff(d2[k]) > diff(d2[k + 1])
           \/ diff(d2[k]) = diff(d2[k + 1]) /\ d2[k][1] < d2[k + 1][1]
     /\ {sum(d1[k]) : k \in 1..Len(d1)} = 0..(actualRows + actualCols - 2)
     /\ {diff(d2[k]) : k \in 1..Len(d2)} = (-(actualRows - 1))..(actualCols - 1)
     /\ Cardinality({sum(d1[k]) : k \in 1..Len(d1)}) = actualRows + actualCols - 1
     /\ Cardinality({diff(d2[k]) : k \in 1..Len(d2)}) = actualRows + actualCols - 1

\* the first step of the second diagonal scan of ScanByDiagonal on a 3 x 4
\* grid: the top-right cell is painted
C14_Witness ==
  /\ currentProgram = 2 /\ actualRows = 3 /\ actualCols = 4
  /\ lastCall.kind = "update" /\ lastCall.stepped
  /\ programs[2].phase = 2 /\ programs[2].diagonal2Index = 1
  /\ gridState[<<0, 3>>] = CELL_BRICK

\* C15, as stated: for all dimensions the radial generator of ScanByRadiation
\* puts every cell in exactly one of the 24 rays, the clockwise and the
\* counter-clockwise sequences are permutations of the cells, the
\* counter-clockwise sequence is the rays 23..0 concatenated, each ray ordered
\* from the center outward, and it is not the clockwise sequence read
\* backward.
C15_RadialSequencesNeverReversed ==
  LET dims == <<actualRows, actualCols>>
      rays == scanRayPositions[dims]
      cw == clockwisePositions[dims]
      ccw == counterclockwisePositions[dims]
      centerR == Max(0, Half(actualRows))
      centerC == Max(0, Half(actualCols) - 1)
      backward == [k \in 1..Len(cw) |-> cw[Len(cw) + 1 - k]]
  IN /\ \A cell \in Cells :
          Cardinality({<<i, k>> \in (1..numRays) \X (1..(actualRows * actualCols)) :
                          k <= Len(rays[i]) /\ rays[i][k] = cell}) = 1
     /\ IsPermutationOfCells(cw)
     /\ IsPermutationOfCells(ccw)
     /\ cw = Concat(rays)
     /\ ccw = Concat([i \in 1..numRays |-> rays[numRays + 1 - i]])
     /\ \A i \in 1..numRays : \A k \in 1..(Len(rays[i]) - 1) :
          distance2(rays[i][k], centerR, centerC)
            <= distance2(rays[i][k + 1], centerR, centerC)
     /\ ccw # backward

\* C15, amended: the same, except that the counter-clockwise sequence differs
\* from the clockwise sequence read backward exactly on the grids where some
\* ray holds two or more cells; where every ray holds at most one cell (1 x 1,
\* 2 x 1, 3 x 1) the two are the same sequence.
C15_RadialSequences ==
  LET dims == <<actualRows, actualCols>>
      rays == scanRayPositions[dims]
      cw == clockwisePositions[dims]
      ccw == counterclockwisePositions[dims]
      centerR == Max(0, Half(actualRows))
      centerC == Max(0, Half(actualCols) - 1)
      backward == [k \in 1..Len(cw) |-> cw[Len(cw) + 1 - k]]
  IN /\ \A cell \in Cells :
          Cardinality({<<i, k>> \in (1..numRays) \X (1..(actualRows * actualCols)) :
                          k <= Len(rays[i]) /\ rays[i][k] = cell}) = 1
     /\ IsPermutationOfCells(cw)
     /\ IsPermutationOfCells(ccw)
     /\ cw = Concat(rays)
     /\ ccw = Concat([i \in 1..numRays |-> rays[numRays + 1 - i]])
     /\ \A i \in 1..numRays : \A k \in 1..(Len(rays[i]) - 1) :
          distance2(rays[i][k], centerR, centerC)
            <= distance2(rays[i][k + 1], centerR, centerC)
     /\ (ccw # backward) <=> (\E i \in 1..numRays : Len(rays[i]) >= 2)

\* the tenth step of the counter-clockwise scan of ScanByRadiation on a 3 x 4
\* grid, where ray 0 holds three cells: the cell painted is the innermost cell
\* of ray 0, not the tenth cell of the clockwise sequence read backward
C15_Witness ==
  /\ currentProgram = 3 /\ actualRows = 3 /\ actualCols = 4
  /\ lastCall.kind = "update" /\ lastCall.stepped
  /\ programs[3].phase = 2 /\ programs[3].counterclockwiseIndex = 10
  /\ programs[3].lastBrickPos = scanRayPositions[<<3, 4>>][1][1]
  /\ programs[3].lastBrickPos = counterclockwisePositions[<<3, 4>>][10]
  /\ gridState[programs[3].lastBrickPos] = CELL_BRICK
  /\ programs[3].lastBrickPos # clockwisePositions[<<3, 4>>][3]
  /\ Len(scanRayPositions[<<3, 4>>][1]) = 3

\* C16: ScanByLine at ANIMATION_SPEED = 1, any dimensions: after every
\* update() of the horizontal scan at most one cell is BRICK (exactly one
\* while the scan is under way), and after exactly rows*cols update() calls
\* following reset() the grid is all CLAY and the program is in the vertical
\* scan phase, not before.
C16_HorizontalScanOneBrick ==
  LET s == programs[0]
      cells == actualRows * actualCols
      bricks == {pos \in DOMAIN gridState : gridState[pos] = CELL_BRICK}
  IN (currentProgram = 0 /\ animationSpeed = ANIMATION_SPEED_UNITS /\ s.phase >= 1) =>
        /\ updatesSinceReset < cells => s.phase = 1
        /\ s.phase = 1 => Cardinality(bricks) <= 1
        /\ (s.phase = 1 /\ updatesSinceReset >= 1) =>
              /\ Cardinality(bricks) = 1
              /\ s.lastBrickPos \in bricks
        /\ updatesSinceReset = cells =>
              /\ s.phase = 2
              /\ AllClay
              /\ s.lastBrickPos = null

\* ScanByLine on a 3 x 4 grid just after the twelfth update() since reset():
\* the horizontal scan has ended, the grid is CLAY, the vertical scan is next
C16_Witness ==
  /\ currentProgram = 0 /\ animationSpeed = ANIMATION_SPEED_UNITS
  /\ actualRows = 3 /\ actualCols = 4
  /\ lastCall.kind = "update" /\ lastCall.stepped
  /\ updatesSinceReset = 12
  /\ programs[0].phase = 2 /\ AllClay

\* the update() calls since reset() that passed the frame counter: every call
\* at ANIMATION_SPEED = 1, every second call at 0.5
stepsSinceReset == (updatesSinceReset * animationSpeed) \div ANIMATION_SPEED_UNITS

\* C17: ScanByLine, any dimensions: step k of the horizontal scan paints
\* BRICK exactly the k-th cell in row-major order, and step k of the vertical
\* scan exactly the k-th cell in column-major order; each scan takes rows*cols
\* steps, so neither skips or repeats a cell.
C17_ScanOrder ==
  LET s == programs[0]
      cells == actualRows * actualCols
      k == stepsSinceReset
  IN (currentProgram = 0 /\ s.phase >= 1) =>
        /\ k < cells => s.phase = 1
        /\ (cells <= k /\ k < 2 * cells) => s.phase = 2
        /\ k = 2 * cells => s.phase = 3
        /\ (lastCall.kind = "update" /\ lastCall.stepped /\ 1 <= k /\ k <= cells) =>
              lastCall.painted = << <<(k - 1) \div actualCols, (k - 1) % actualCols>> >>
        /\ (lastCall.kind = "update" /\ lastCall.stepped
              /\ cells < k /\ k <= 2 * cells) =>
              lastCall.painted = << <<(k - cells - 1) % actualRows,
                                      (k - cells - 1) \div actualRows>> >>

\* ScanByLine on a 3 x 4 grid, second step of the vertical scan: the cell
\* painted is row 1 of column 0
C17_Witness ==
  /\ currentProgram = 0 /\ actualRows = 3 /\ actualCols = 4
  /\ lastCall.kind = "update" /\ lastCall.stepped
  /\ programs[0].phase = 2
  /\ stepsSinceReset = 14
  /\ lastCall.painted = << <<1, 0>> >>
  /\ gridState[<<1, 0>>] = CELL_BRICK

\* C18: a cell write with a row or a column outside the grid (negative, or
\* >= rows / >= cols) leaves every cell as it was and completes; a write with
\* in-bounds coordinates sets exactly that cell and leaves the others.
C18_WriteOnlyInBounds ==
  lastCall.kind = "write" =>
     LET inBounds == /\ lastCall.row \in 0..(actualRows - 1)
                     /\ lastCall.col \in 0..(actualCols - 1)
     IN /\ DOMAIN gridState = DOMAIN lastCall.before
        /\ ~inBounds => gridState = lastCall.before
        /\ inBounds =>
             /\ gridState[<<lastCall.row, lastCall.col>>] = lastCall.value
             /\ \A pos \in DOMAIN gridState :
                  pos # <<lastCall.row, lastCall.col>> =>
                     gridState[pos] = lastCall.before[pos]

\* a write at row -1 on a grid of two rows whose row 1 holds a brick from the
\* write before: the grid is as it was
C18_Witness ==
  /\ lastCall.kind = "write" /\ lastCall.count = 2
  /\ actualRows = 2
  /\ lastCall.row = -1 /\ lastCall.col = 0 /\ lastCall.value = CELL_CLAY
  /\ lastCall.before[<<1, 0>>] = CELL_BRICK
  /\ gridState = lastCall.before

\* C19: for every positive canvas width and height and either setting of
\* FIX_ROWS, the dimensions calculateDimensions computes, with which
\* initializeGrid builds the grid and the programs, have rows >= 1 and
\* cols >= 1.
C19_DimensionsAtLeastOne ==
  lastCall.kind \in {"setup", "resize"} =>
     /\ actualRows >= 1
     /\ actualCols >= 1
     /\ DOMAIN gridState # {}

\* C20: with images loaded and no resize events, under fair ticking, every
\* program that is active and not done is eventually done; every completion
\* is eventually followed by a tick that switches to another program and
\* resets it; and such switches happen infinitely often.
C20_CyclesForever ==
  /\ (imagesLoaded /\ ~activeDone) ~> activeDone
  /\ (imagesLoaded /\ activeDone) ~>
        (/\ lastCall.switched
         /\ currentProgram # lastCall.completedIndex
         /\ programs[currentProgram].phase = 1
         /\ ~activeDone)
  /\ [](imagesLoaded => []<>(lastCall.kind = "tick" /\ lastCall.switched))

\* the tick that ends the freeze of a completed SwipeByLine and resets another
\* program, later than the first switch of the run
C20_Witness ==
  /\ imagesLoaded
  /\ lastCall.kind = "tick" /\ lastCall.switched
  /\ lastCall.completedIndex = 6
  /\ currentProgram # 6
  /\ programs[currentProgram].phase = 1
  /\ AllClay

\* C21: for each program an update() call applies at most one logical step:
\* the phase rises by at most one, a call that enters the switch leaves what
\* one pass of the switch leaves, and a call held back by the frame counter
\* changes nothing but that counter.  With ANIMATION_SPEED = 1 every update()
\* on a program that is not done enters the switch, a program that was reset
\* is changed by it, and frameCounter is 0 after the call.
C21_OneStepPerUpdate ==
  [][lastCall'.kind = "update" =>
       LET i == currentProgram
           s == programs[i]
           t == programs'[i]
           one == step(i, [s EXCEPT !.frameCounter = 0], gridState,
                       actualRows, actualCols)
       IN /\ t.phase - s.phase \in {0, 1}
          /\ lastCall'.stepped =>
                /\ t = one.prog
                /\ gridState' = applyWrites(gridState, one.writes)
                /\ t.frameCounter = 0
          /\ ~lastCall'.stepped =>
                /\ gridState' = gridState
                /\ [t EXCEPT !.frameCounter = s.frameCounter] = s
          /\ (animationSpeed = ANIMATION_SPEED_UNITS /\ ~isDone(i, s)) =>
                /\ lastCall'.stepped
                /\ t.frameCounter = 0
                /\ s.phase >= 1 => t # s]_vars

\* SwipeByLine at ANIMATION_SPEED = 1 just after its third update() since
\* reset(): the call entered the switch and the frame counter is back at 0
C21_Witness ==
  /\ currentProgram = 6 /\ animationSpeed = ANIMATION_SPEED_UNITS
  /\ lastCall.kind = "update" /\ lastCall.stepped
  /\ updatesSinceReset = 3
  /\ programs[6].frameCounter = 0
  /\ ~activeDone

\* the phase in which each program reports isDone(): 4 for the four Scan
\* programs, 5 for SwipeByRadiation, 6 for SwipeByDiagonal and SwipeByLine
terminalPhase(i) == IF i \in 0..3 THEN 4 ELSE IF i = 4 THEN 5 ELSE 6

\* C22: for each program, between two resets the phase never decreases and
\* never skips a value: reset() sets it to 1, every update() leaves it or
\* raises it by exactly one, it never passes the terminal phase, and isDone()
\* holds exactly in the terminal phase.
C22_PhaseStepsByOne ==
  [][LET i == currentProgram
         s == programs[i]
         t == programs'[i]
     IN /\ lastCall'.kind = "update" => t.phase \in {s.phase, s.phase + 1}
        /\ lastCall'.kind = "reset" => t.phase = 1
        /\ t.phase \in 0..terminalPhase(i)
        /\ isDone(i, t) <=> t.phase = terminalPhase(i)]_vars

\* the update() of SwipeByRadiation that takes it from phase 4 to its
\* terminal phase 5
C22_Witness ==
  /\ currentProgram = 4
  /\ lastCall.kind = "update" /\ lastCall.stepped
  /\ programs[4].phase = 5
  /\ activeDone

RECURSIVE runFrom(_, _, _, _, _, _)
\* the run of program i from the state last(run): update() called until the
\* program is done or `calls` calls were made; the states are appended to run
runFrom(run, i, rows, cols, speed, calls) ==
  LET last == run[Len(run)]
  IN IF calls = 0 \/ isDone(i, last.prog) THEN run
     ELSE LET u == update(i, last.prog, last.grid, rows, cols, speed)
          IN runFrom(Append(run, [prog |-> u.prog,
                                  grid |-> applyWrites(last.grid, u.writes) @@ <<>>]),
                     i, rows, cols, speed, calls - 1)

\* the run of a newly constructed program i on a new grid: reset(), then
\* update() up to isDone(); element k + 1 is the state after k update() calls
\* (CallCap calls in all, made in four stretches)
firstRun(i, rows, cols, speed) ==
  LET r == reset(i, newPrograms[i], rows, cols)
      start == <<[prog |-> r.prog,
                  grid |-> applyWrites(newGrid(rows, cols), r.writes) @@ <<>>]>>
      stretch == rows * cols + numRays
      run1 == runFrom(start, i, rows, cols, speed, stretch)
      run2 == runFrom(run1, i, rows, cols, speed, stretch)
      run3 == runFrom(run2, i, rows, cols, speed, stretch)
  IN runFrom(run3, i, rows, cols, speed, CallCap(rows, cols) - 3 * stretch)

firstRuns ==
  [key \in ProgramIds \X DimSet \X HarnessSpeeds |->
     firstRun(key[1], key[2][1], key[2][2], key[3])] @@ <<>>

\* C23: the grid states a program produces from reset() up to isDone() are the
\* same on every run on the same dimensions, whatever ran before and however
\* often it was reset: after reset() and k update() calls the program's
\* fields and the grid are those of the first run of a newly constructed
\* program after k calls.
C23_RunsAreRepeatable ==
  LET i == currentProgram
      run == firstRuns[<<i, <<actualRows, actualCols>>, animationSpeed>>]
      k == Min(updatesSinceReset, Len(run) - 1)
  IN (/\ i # NoProgram
      /\ programs[i].phase >= 1
      /\ updatesSinceReset < CallCap(actualRows, actualCols)) =>
        run[k + 1] = [prog |-> programs[i], grid |-> gridState]

\* ScanByDiagonal, reset after another program ran to completion on the same
\* grid, four calls into its run
C23_Witness ==
  /\ imagesLoaded /\ currentProgram = 2
  /\ lastCall.kind = "tick" /\ lastCall.stepped
  /\ updatesSinceReset = 4
  /\ programs[2].phase = 1
  /\ \E j \in ProgramIds \ {2} : isDone(j, programs[j])
  /\ gridState[programs[2].lastBrickPos] = CELL_BRICK

\* C24: in every execution every update() and reset() of the scheduler
\* targets programs[currentProgramIndex] (currentProgram is that entry, the
\* index is in 0..6), and no tick has two programs write the grid: in a tick
\* that resets the next program the update() of the outgoing one writes no
\* cell.
C24_OneWriterPerTick ==
  [][(imagesLoaded /\ Tick) =>
        /\ currentProgramIndex \in ProgramIds
        /\ currentProgram = currentProgramIndex
        /\ currentProgramIndex' \in ProgramIds
        /\ currentProgram' = currentProgramIndex'
        /\ \A j \in ProgramIds \ {currentProgramIndex, currentProgramIndex'} :
              programs'[j] = programs[j]
        /\ lastCall'.switched =>
              update(currentProgram, programs[currentProgram], gridState,
                     actualRows, actualCols, animationSpeed).writes = <<>>]_vars

\* the cells that are the one and only BRICK cell of the grid left by some
\* update() call made in phase p of the first run of program i
liveCells(i, rows, cols, speed, p) ==
  LET run == firstRuns[<<i, <<rows, cols>>, speed>>]
  IN {cell \in (0..(rows - 1)) \X (0..(cols - 1)) :
        \E k \in 1..(Len(run) - 1) :
           /\ run[k].prog.phase = p
           /\ \A pos \in DOMAIN run[k + 1].grid :
                 run[k + 1].grid[pos] = CELL_BRICK <=> pos = cell}

liveCellsOf ==
  [key \in (0..3) \X HarnessDims \X HarnessSpeeds |->
     <<liveCells(key[1], key[2][1], key[2][2], key[3], 1) \cup {},
       liveCells(key[1], key[2][1], key[2][2], key[3], 2) \cup {}>>] @@ <<>>

\* C25 as stated: for each of the four Scan programs and each of its two
\* scanning phases, every cell is the unique BRICK cell of the grid left by
\* some update() call of that phase, the last cell of the traversal included.
C25_EveryCellShownLive ==
  currentProgram \in 0..3 =>
     \A p \in {1, 2} :
        liveCellsOf[<<currentProgram, <<actualRows, actualCols>>, animationSpeed>>][p]
          = Cells

\* C25, amended: that holds for ScanBySpiral, ScanByDiagonal and
\* ScanByRadiation; in ScanByLine every cell but the bottom-right one, the
\* last of both traversals, is the unique BRICK cell after some update() of
\* each scan, and the bottom-right cell is never BRICK in a grid an update()
\* of a scan leaves.
C25_EveryCellShownLiveButLineLast ==
  currentProgram \in 0..3 =>
     \A p \in {1, 2} :
        liveCellsOf[<<currentProgram, <<actualRows, actualCols>>, animationSpeed>>][p]
          = IF currentProgram = 0
            THEN Cells \ {<<actualRows - 1, actualCols - 1>>}
            ELSE Cells

\* ScanBySpiral on a 3 x 4 grid after the twelfth update() of the reverse
\* scan: the center cell, last of the traversal, is the only BRICK cell and
\* the program is still in phase 2
C25_Witness ==
  /\ currentProgram = 1 /\ actualRows = 3 /\ actualCols = 4
  /\ lastCall.kind = "update" /\ lastCall.stepped
  /\ programs[1].phase = 2 /\ programs[1].reverseIndex = -1
  /\ \A pos \in DOMAIN gridState : gridState[pos] = CELL_BRICK <=> pos = <<1, 1>>

\* C26: for the four Scan programs, in every state between update() calls
\* of a scanning phase (1 or 2), lastBrickPos is null exactly when the grid is
\* all CLAY and is otherwise the one and only BRICK cell; when the fill phase
\* (3) is entered the grid is all CLAY and lastBrickPos is null.
C26_LastBrickPosIsTheLiveCell ==
  LET i == currentProgram
      s == programs[i]
      bricks == {pos \in DOMAIN gridState : gridState[pos] = CELL_BRICK}
  IN i \in 0..3 =>
        /\ s.phase \in {1, 2} =>
              /\ s.lastBrickPos = null <=> AllClay
              /\ s.lastBrickPos # null => bricks = {s.lastBrickPos}
        /\ (s.phase = 3 /\ s.fillCounter = 0 /\ (i = 0 \/ s.fillIndex = 0)) =>
              /\ AllClay
              /\ s.lastBrickPos = null

\* ScanByRadiation just after the update() that ends its counter-clockwise
\* scan: fill phase entered, nothing filled yet, the grid all CLAY
C26_Witness ==
  /\ currentProgram = 3 /\ actualRows = 3 /\ actualCols = 4
  /\ lastCall.kind = "update" /\ lastCall.stepped
  /\ programs[3].phase = 3 /\ programs[3].fillIndex = 0
  /\ programs[3].counterclockwiseIndex = 12
  /\ programs[3].lastBrickPos = null /\ AllClay

\* C27: ScanBySpiral: the forward scan paints the path cells in order; the
\* k-th cell painted by the reverse scan is the (rows*cols + 1 - k)-th of the
\* forward scan, from the last path element to the center cell; the fill
\* phase turns one cell BRICK per update(), in forward path order.
C27_SpiralReverseAndFill ==
  LET s == programs[1]
      path == spiralPositions[<<actualRows, actualCols>>]
      cells == actualRows * actualCols
      k == stepsSinceReset
  IN (currentProgram = 1 /\ s.phase >= 1 /\ lastCall.kind = "update"
        /\ lastCall.stepped) =>
        /\ path[1] = <<Half(actualRows), Max(0, Half(actualCols) - 1)>>
        /\ (1 <= k /\ k <= cells) =>
              lastCall.painted = <<path[k]>> /\ s.phase = 1
        /\ k = cells + 1 => lastCall.painted = <<>> /\ s.phase = 2
        /\ (cells + 2 <= k /\ k <= 2 * cells + 1) =>
              lastCall.painted = <<path[cells + 1 - (k - (cells + 1))]>> /\ s.phase = 2
        /\ k = 2 * cells + 2 => lastCall.painted = <<>> /\ s.phase = 3
        /\ (2 * cells + 3 <= k /\ k <= 3 * cells + 2) =>
              /\ lastCall.painted = <<path[k - (2 * cells + 2)]>>
              /\ s.phase = 3
              /\ \A n \in 1..cells :
                    gridState[path[n]] = CELL_BRICK <=> n <= k - (2 * cells + 2)
        /\ k = 3 * cells + 3 => lastCall.painted = <<>> /\ s.phase = 4

\* ScanBySpiral on a 3 x 4 grid, last step of the reverse scan: the twelfth
\* cell it paints is the first of the path, the center cell
C27_Witness ==
  /\ currentProgram = 1 /\ actualRows = 3 /\ actualCols = 4
  /\ lastCall.kind = "update" /\ lastCall.stepped
  /\ stepsSinceReset = 25
  /\ programs[1].phase = 2
  /\ lastCall.painted = << <<1, 1>> >>
  /\ lastCall.painted = <<spiralPositions[<<3, 4>>][1]>>

\* C28: ScanByLine fill phase, any dimensions: the k-th fill update() turns
\* exactly one cell BRICK, the k-th cell in row-major order; isDone() becomes
\* true on the update() that fills the last cell, so with ANIMATION_SPEED = 1
\* the program is done after exactly 3*rows*cols update() calls from reset().
C28_LineFillRowMajor ==
  LET s == programs[0]
      cells == actualRows * actualCols
      k == stepsSinceReset
      order == RowMajor(actualRows, actualCols)
  IN (currentProgram = 0 /\ s.phase >= 1) =>
        /\ activeDone <=> k = 3 * cells
        /\ (animationSpeed = ANIMATION_SPEED_UNITS /\ activeDone) =>
              updatesSinceReset = 3 * cells
        /\ (lastCall.kind = "update" /\ lastCall.stepped
              /\ 2 * cells < k /\ k <= 3 * cells) =>
              /\ lastCall.painted = <<order[k - 2 * cells]>>
              /\ order[k - 2 * cells] =
                   <<(k - 2 * cells - 1) \div actualCols, (k - 2 * cells - 1) % actualCols>>
              /\ \A n \in 1..cells :
                    gridState[order[n]] = CELL_BRICK <=> n <= k - 2 * cells
              /\ s.phase = IF k = 3 * cells THEN 4 ELSE 3

\* ScanByLine on a 3 x 4 grid at ANIMATION_SPEED = 1, the 36th update() since
\* reset(): it fills the bottom-right cell and the program is done
C28_Witness ==
  /\ currentProgram = 0 /\ actualRows = 3 /\ actualCols = 4
  /\ animationSpeed = ANIMATION_SPEED_UNITS
  /\ lastCall.kind = "update" /\ lastCall.stepped
  /\ updatesSinceReset = 36
  /\ lastCall.painted = << <<2, 3>> >>
  /\ activeDone /\ AllBrick

\* C29: SwipeByLine vertical swipe (phase 2), any rows, cols >= 1: after every
\* update() that leaves the program in phase 2 exactly one row is entirely
\* BRICK and every other cell is CLAY, the highlighted row is in [0, rows-1]
\* and moves by exactly one row per step (rows >= 2); the phase ends on the
\* update() that records the 2nd boundary reversal, with the highlight back at
\* row 0 and the grid all CLAY.
C29_VerticalSwipe ==
  [][(currentProgram = 6 /\ lastCall'.kind = "update" /\ lastCall'.stepped) =>
       LET s == programs[6]
           t == programs'[6]
       IN /\ t.phase = 2 =>
               /\ t.currentRow \in 0..(actualRows - 1)
               /\ t.verticalSwipeCount < maxSwipes * 2
               /\ \A pos \in Cells :
                     gridState'[pos] = CELL_BRICK <=> pos[1] = t.currentRow
               /\ \A pos \in Cells :
                     gridState'[pos] = CELL_CLAY <=> pos[1] # t.currentRow
          /\ s.phase = 2 =>
               /\ t.phase \in {2, 3}
               /\ actualRows >= 2 => Abs(t.currentRow - s.currentRow) = 1
               /\ t.verticalSwipeCount - s.verticalSwipeCount \in {0, 1}
               /\ t.verticalSwipeCount > s.verticalSwipeCount =>
                     t.currentRow \in {0, actualRows - 1}
               /\ t.phase = 3 <=>
                     (s.verticalSwipeCount = 1 /\ t.verticalSwipeCount = 2)
               /\ t.phase = 3 =>
                     /\ t.currentRow = 0
                     /\ \A pos \in Cells : gridState'[pos] = CELL_CLAY
                     /\ (updatesSinceReset' * animationSpeed) \div ANIMATION_SPEED_UNITS
                          = 1 + Max(2, 2 * (actualRows - 1))
    ]_vars

\* SwipeByLine on a 3 x 4 grid: the update() that brings the highlight back to
\* row 0, counts the second reversal and leaves the grid all CLAY in phase 3
C29_Witness ==
  /\ currentProgram = 6 /\ actualRows = 3 /\ actualCols = 4
  /\ lastCall.kind = "update" /\ lastCall.stepped
  /\ programs[6].phase = 3
  /\ programs[6].currentRow = 0
  /\ programs[6].verticalSwipeCount = 2
  /\ programs[6].verticalDirection = 1
  /\ stepsSinceReset = 5
  /\ AllClay

\* the update() calls one vertical or horizontal swipe of SwipeByLine takes on
\* an axis of `size` cells
swipeCalls(size) == Max(2, 2 * (size - 1))

\* C30: SwipeByLine horizontal swipe (phase 4) on a grid with a single column
\* or a single row, down to 1 x 1: the swipe ends after exactly 2 boundary
\* reversals (2 update() calls when the swept dimension is 1), the cursor
\* never leaves [0, max-1], no out-of-bounds cell is written, and the program
\* reaches isDone() with an all-BRICK grid.
C30_HorizontalSwipeOnThinGrids ==
  [][(currentProgram = 6 /\ (actualRows = 1 \/ actualCols = 1)
        /\ lastCall'.kind = "update") =>
       LET s == programs[6]
           t == programs'[6]
           steps == (updatesSinceReset' * animationSpeed) \div ANIMATION_SPEED_UNITS
           untilFill == 1 + swipeCalls(actualRows) + 1 + swipeCalls(actualCols)
       IN /\ ~lastCall'.oob
          /\ t.currentCol \in 0..(actualCols - 1)
          /\ t.currentRow \in 0..(actualRows - 1)
          /\ t.phase = 4 =>
               /\ t.horizontalSwipeCount < maxSwipes * 2
               /\ \A pos \in Cells :
                     gridState'[pos] = CELL_BRICK <=> pos[2] = t.currentCol
          /\ (lastCall'.stepped /\ s.phase = 4) =>
               /\ t.phase \in {4, 5}
               /\ t.horizontalSwipeCount - s.horizontalSwipeCount \in {0, 1}
               /\ actualCols = 1 =>
                     t.horizontalSwipeCount = s.horizontalSwipeCount + 1
               /\ t.phase = 5 <=>
                     (s.horizontalSwipeCount = 1 /\ t.horizontalSwipeCount = 2)
               /\ t.phase = 5 =>
                     /\ t.currentCol = 0
                     /\ \A pos \in Cells : gridState'[pos] = CELL_CLAY
                     /\ steps = untilFill
          /\ t.phase >= 1 =>
               /\ isDone(6, t) <=> steps = untilFill + actualRows + 1
               /\ isDone(6, t) => \A pos \in Cells : gridState'[pos] = CELL_BRICK
    ]_vars

\* SwipeByLine on a 1 x 1 grid: the update() that ends the horizontal swipe,
\* the second of the swipe and the sixth since reset()
C30_Witness ==
  /\ currentProgram = 6 /\ actualRows = 1 /\ actualCols = 1
  /\ lastCall.kind = "update" /\ lastCall.stepped /\ ~lastCall.oob
  /\ programs[6].phase = 5
  /\ programs[6].horizontalSwipeCount = 2
  /\ programs[6].currentCol = 0
  /\ stepsSinceReset = 6
  /\ AllClay

\* C31: SwipeByLine fill phase: after the k-th fill update() (1 <= k <= rows)
\* rows 0..k-1 are entirely BRICK and rows k..rows-1 entirely CLAY; isDone()
\* becomes true on the (rows+1)-th update() of the phase, the one after the
\* call that filled the last row.
C31_SwipeByLineFill ==
  LET s == programs[6]
      k == stepsSinceReset
             - (1 + swipeCalls(actualRows) + 1 + swipeCalls(actualCols))
  IN (currentProgram = 6 /\ s.phase >= 1
        /\ lastCall.kind = "update" /\ lastCall.stepped) =>
        /\ s.phase >= 5 <=> k >= 0
        /\ activeDone <=> k = actualRows + 1
        /\ (1 <= k /\ k <= actualRows) =>
              /\ s.phase = 5 /\ s.fillRow = k
              /\ lastCall.painted = [c \in 1..actualCols |-> <<k - 1, c - 1>>]
              /\ \A pos \in Cells :
                    gridState[pos] = (IF pos[1] < k THEN CELL_BRICK ELSE CELL_CLAY)
        /\ k = actualRows + 1 =>
              /\ s.phase = 6 /\ s.fillRow = actualRows
              /\ lastCall.painted = <<>>
              /\ AllBrick

\* SwipeByLine on a 3 x 4 grid just after the update() that filled the last
\* row: every cell is BRICK and the program is not done yet
C31_Witness ==
  /\ currentProgram = 6 /\ actualRows = 3 /\ actualCols = 4
  /\ lastCall.kind = "update" /\ lastCall.stepped
  /\ programs[6].phase = 5 /\ programs[6].fillRow = 3
  /\ lastCall.painted = << <<2, 0>>, <<2, 1>>, <<2, 2>>, <<2, 3>> >>
  /\ AllBrick /\ ~activeDone

\* the cells at path positions [index, index + width) of a diagonal family
blockCells(path, index, width) ==
  {path[n + 1] : n \in {x \in index..(index + width - 1) : x >= 0 /\ x < Len(path)}}

\* C32: SwipeByDiagonal swipe phases (2 and 4), m = min(rows, cols), N =
\* rows*cols: the block index is always a multiple of m within [0, N-m]; after
\* every update() that leaves the program in the swipe phase exactly m cells
\* are BRICK, the path positions [index, index+m) of the current diagonal
\* family, and all other cells are CLAY; each swipe phase ends after exactly 2
\* boundary reversals with the grid all CLAY.
C32_DiagonalSwipe ==
  [][(currentProgram = 5 /\ lastCall'.kind = "update") =>
       LET s == programs[5]
           t == programs'[5]
           m == Min(actualRows, actualCols)
           cells == actualRows * actualCols
           d1 == diagonal1Positions[<<actualRows, actualCols>>]
           d2 == diagonal2Positions[<<actualRows, actualCols>>]
           steps == (updatesSinceReset' * animationSpeed) \div ANIMATION_SPEED_UNITS
           swipe == swipeCalls(Max(actualRows, actualCols))
           bricks == {pos \in Cells : gridState'[pos] = CELL_BRICK}
           clays == {pos \in Cells : gridState'[pos] = CELL_CLAY}
       IN /\ t.currentDiagonal1Index % m = 0
          /\ t.currentDiagonal1Index \in 0..(cells - m)
          /\ t.currentDiagonal2Index % m = 0
          /\ t.currentDiagonal2Index \in 0..(cells - m)
          /\ t.phase = 2 =>
               /\ bricks = blockCells(d1, t.currentDiagonal1Index, m)
               /\ Cardinality(bricks) = m /\ bricks \cup clays = Cells
               /\ t.diagonal1SwipeCount < maxSwipes * 2
          /\ t.phase = 4 =>
               /\ bricks = blockCells(d2, t.currentDiagonal2Index, m)
               /\ Cardinality(bricks) = m /\ bricks \cup clays = Cells
               /\ t.diagonal2SwipeCount < maxSwipes * 2
          /\ (lastCall'.stepped /\ s.phase = 2) =>
               /\ t.phase \in {2, 3}
               /\ t.diagonal1SwipeCount - s.diagonal1SwipeCount \in {0, 1}
               /\ t.diagonal1SwipeCount > s.diagonal1SwipeCount =>
                     t.currentDiagonal1Index \in {0, cells - m}
               /\ t.phase = 3 <=>
                     (s.diagonal1SwipeCount = 1 /\ t.diagonal1SwipeCount = 2)
               /\ t.phase = 3 => (clays = Cells /\ steps = 1 + swipe)
          /\ (lastCall'.stepped /\ s.phase = 4) =>
               /\ t.phase \in {4, 5}
               /\ t.diagonal2SwipeCount - s.diagonal2SwipeCount \in {0, 1}
               /\ t.diagonal2SwipeCount > s.diagonal2SwipeCount =>
                     t.currentDiagonal2Index \in {0, cells - m}
               /\ t.phase = 5 <=>
                     (s.diagonal2SwipeCount = 1 /\ t.diagonal2SwipeCount = 2)
               /\ t.phase = 5 => (clays = Cells /\ steps = 2 + 2 * swipe)
    ]_vars

\* SwipeByDiagonal on a 3 x 4 grid in its second swipe, the block at its upper
\* boundary: index 9 = N - m, first reversal counted, three cells BRICK
C32_Witness ==
  /\ currentProgram = 5 /\ actualRows = 3 /\ actualCols = 4
  /\ lastCall.kind = "update" /\ lastCall.stepped
  /\ programs[5].phase = 4
  /\ programs[5].currentDiagonal2Index = 9
  /\ programs[5].diagonal2SwipeCount = 1
  /\ programs[5].diagonal2Direction = -1
  /\ {pos \in Cells : gridState[pos] = CELL_BRICK}
       = blockCells(diagonal2Positions[<<3, 4>>], 9, 3)
  /\ Cardinality({pos \in Cells : gridState[pos] = CELL_BRICK}) = 3

\* C33: SwipeByRadiation assigns cells to its 24 fill rays around the center
\* of the radial path generator, (floor(rows/2), max(0, floor(cols/2) - 1)),
\* so its ray-by-ray fill uses the same partition of the grid into rays, in
\* the same ray order, as ScanByRadiation's clockwise order: the k-th fill
\* update() paints ray k - 1 of the path generator.
C33_FillRaysAreScanRays ==
  LET s == programs[4]
      dims == <<actualRows, actualCols>>
  IN (currentProgram = 4 /\ lastCall.kind = "update" /\ lastCall.stepped
        /\ s.phase = 4 /\ s.currentFillRay >= 1) =>
        /\ clockwiseRays[dims] = scanRayPositions[dims]
        /\ Concat(clockwiseRays[dims]) = clockwisePositions[dims]
        /\ lastCall.painted = scanRayPositions[dims][s.currentFillRay]

\* the cells of a sequence of positions
cellsOf(path) == {path[n] : n \in 1..Len(path)}

\* C34: SwipeByRadiation rotation phases (2 and 3), the line at an angle being
\* a fixed set of cells: after every update() in these phases the BRICK cells
\* are exactly the line at the current angle (the previous line is erased
\* before the next is drawn), and the grid is all CLAY when the fill phase (4)
\* is entered.
C34_OneLineWhileRotating ==
  LET s == programs[4]
      line == cellsOf(lineAt(actualRows, actualCols, s.currentAngle))
  IN (currentProgram = 4 /\ lastCall.kind = "update") =>
        /\ s.phase \in {2, 3} =>
              /\ \A pos \in Cells :
                    gridState[pos] = (IF pos \in line THEN CELL_BRICK ELSE CELL_CLAY)
              /\ line # {} /\ line \subseteq Cells
              /\ lastCall.stepped => cellsOf(lastCall.painted) = line
        /\ (s.phase = 4 /\ s.currentFillRay = 0) =>
              /\ AllClay
              /\ lastCall.stepped => lastCall.painted = <<>>

\* SwipeByRadiation on a 3 x 4 grid turning counter-clockwise, the line at
\* minus 5 steps of 15 degrees: the BRICK cells are that line, the lines at
\* the angles before it are erased
C34_Witness ==
  /\ currentProgram = 4 /\ actualRows = 3 /\ actualCols = 4
  /\ lastCall.kind = "update" /\ lastCall.stepped
  /\ programs[4].phase = 3
  /\ programs[4].currentAngle = -5
  /\ cellsOf(lastCall.painted) = cellsOf(lineAt(3, 4, -5))
  /\ cellsOf(lineAt(3, 4, -5)) # cellsOf(lineAt(3, 4, -4))
  /\ {pos \in Cells : gridState[pos] = CELL_BRICK} = cellsOf(lineAt(3, 4, -5))

\* C35: SwipeByRadiation turns the line through exactly 24 steps of 15 degrees
\* clockwise and exactly 24 steps back, so that with ANIMATION_SPEED = 1 it
\* reaches isDone() after the same number of update() calls on every grid
\* size: 1 draw + 24 + 24 rotation steps + 24 ray fills + 1 transition.
C35_TwentyFourStepsEachWay ==
  LET s == programs[4]
      k == updatesSinceReset
  IN (currentProgram = 4 /\ s.phase >= 1
        /\ animationSpeed = ANIMATION_SPEED_UNITS) =>
        /\ s.phase = 1 <=> k = 0
        /\ s.phase = 2 <=> k \in 1..numRays
        /\ s.phase = 3 <=> k \in (numRays + 1)..(2 * numRays)
        /\ s.phase = 4 <=> k \in (2 * numRays + 1)..(3 * numRays + 1)
        /\ activeDone <=> k = 1 + numRays + numRays + numRays + 1

\* C36: after initialization and after every resize rebuild the first program
\* that runs, index 0 of the program list, is SwipeByRadiation: the active
\* program has the fields of a SwipeByRadiationProgram just after reset().
C36_StartsWithSwipeByRadiation ==
  lastCall.kind \in {"setup", "resize"} =>
     /\ currentProgramIndex = 0 /\ currentProgram = 0
     /\ DOMAIN programs[currentProgram] = DOMAIN SwipeByRadiationNew
     /\ programs[currentProgram]
          = SwipeByRadiationReset(SwipeByRadiationNew, actualRows, actualCols).prog

\* C37: at the end of a freeze period every one of the 6 other programs is a
\* possible successor: whenever a tick can switch programs, it can switch to
\* each index other than the current one (and to no other), whatever program
\* is current, so no program is ever excluded from selection.  A tick
\* switches when the images are loaded, the freeze counter is one short of
\* FREEZE_DURATION and the program is done after its update().
C37_EveryOtherProgramCanFollow ==
  (/\ imagesLoaded /\ isFrozen /\ freezeComplete(freezeCounter + 1)
   /\ isDone(currentProgram,
             update(currentProgram, programs[currentProgram], gridState,
                    actualRows, actualCols, animationSpeed).prog)) =>
     /\ \A j \in ProgramIds :
           j # currentProgramIndex <=>
              ENABLED (/\ currentProgramIndex' = j
                       /\ Tick
                       /\ lastCall'.switched
                       /\ lastCall'.completedIndex = currentProgramIndex
                       /\ currentProgram' = j
                       /\ programs'[j].phase = 1)
     /\ Cardinality(ProgramIds \ {currentProgramIndex}) = 6

\* the tick that ended the freeze of SwipeByLine, the last program of the
\* list, and made ScanByLine, the first, active again
C37_Witness ==
  /\ lastCall.kind = "tick" /\ lastCall.switched
  /\ lastCall.completedIndex = 6
  /\ currentProgramIndex = 0 /\ currentProgram = 0
  /\ programs[0].phase = 1 /\ programs[6].phase = 6
  /\ ~isFrozen

\* ANIMATION_SPEED = 0.5 in units of 1/FrameUnit
HalfSpeed == ANIMATION_SPEED_UNITS \div 2

\* the number of update() calls the first run of program i takes from reset()
\* to isDone() (-1 if it is not done 4 * numRays calls after the first
\* CallCap calls)
callsToDone ==
  [key \in ProgramIds \X HarnessDims \X HarnessSpeeds |->
     LET i == key[1]
         rows == key[2][1]
         cols == key[2][2]
         more == runFrom(firstRuns[key], i, rows, cols, key[3], 2 * numRays)
         run == runFrom(more, i, rows, cols, key[3], 2 * numRays)
     IN IF isDone(i, run[Len(run)].prog) THEN Len(run) - 1 ELSE -1] @@ <<>>

\* C38: with ANIMATION_SPEED = 0.5 (the accumulator kept exactly, in halves),
\* for each program exactly every second update() call applies a logical
\* step, the same step a call at ANIMATION_SPEED = 1 applies, and the calls in
\* between change neither the grid nor the phase; so the number of update()
\* calls needed to reach isDone() is exactly twice the number needed with
\* ANIMATION_SPEED = 1.
C38_HalfSpeedTakesTwiceTheCalls ==
  [][(lastCall'.kind = "update" /\ animationSpeed = HalfSpeed
        /\ programs[currentProgram].phase >= 1 /\ ~activeDone) =>
       LET i == currentProgram
           s == programs[i]
           t == programs'[i]
           dims == <<actualRows, actualCols>>
           full == update(i, [s EXCEPT !.frameCounter = 0], gridState,
                          actualRows, actualCols, ANIMATION_SPEED_UNITS)
           counting == updatesSinceReset' < CallCap(actualRows, actualCols)
       IN /\ s.frameCounter \in {0, HalfSpeed}
          /\ lastCall'.stepped <=> s.frameCounter = HalfSpeed
          /\ t.frameCounter = HalfSpeed - s.frameCounter
          /\ ~lastCall'.stepped =>
               /\ gridState' = gridState
               /\ t.phase = s.phase
               /\ [t EXCEPT !.frameCounter = s.frameCounter] = s
          /\ lastCall'.stepped =>
               /\ full.stepped
               /\ t = full.prog
               /\ gridState' = applyWrites(gridState, full.writes)
          /\ counting => (lastCall'.stepped <=> updatesSinceReset' % 2 = 0)
          /\ (counting /\ isDone(i, t)) =>
               updatesSinceReset' = 2 * callsToDone[<<i, dims, ANIMATION_SPEED_UNITS>>]
          /\ callsToDone[<<i, dims, ANIMATION_SPEED_UNITS>>] >= 1
          /\ callsToDone[<<i, dims, HalfSpeed>>]
               = 2 * callsToDone[<<i, dims, ANIMATION_SPEED_UNITS>>]
    ]_vars

\* SwipeByLine on a 3 x 4 grid at ANIMATION_SPEED = 0.5: the 32nd update()
\* since reset() applies the 16th step and completes the program
C38_Witness ==
  /\ currentProgram = 6 /\ actualRows = 3 /\ actualCols = 4
  /\ animationSpeed = HalfSpeed
  /\ lastCall.kind = "update" /\ lastCall.stepped
  /\ updatesSinceReset = 32
  /\ callsToDone[<<6, <<3, 4>>, ANIMATION_SPEED_UNITS>>] = 16
  /\ programs[6].frameCounter = 0
  /\ activeDone /\ AllBrick

\* C39: for every program and every rows, cols >= 1, no update() or reset()
\* call issues a cell write with coordinates outside [0, rows) x [0, cols):
\* the out-of-bounds guard of the grid accessor is never triggered.
C39_NoWriteOutsideTheGrid ==
  [][lastCall'.kind \in {"update", "reset"} =>
       LET i == currentProgram
           writes == IF lastCall'.kind = "update"
                     THEN update(i, programs[i], gridState, actualRows, actualCols,
                                 animationSpeed).writes
                     ELSE reset(i, programs[i], actualRows, actualCols).writes
       IN /\ \A k \in 1..Len(writes) :
                /\ writes[k][1] \in 0..(actualRows - 1)
                /\ writes[k][2] \in 0..(actualCols - 1)
          /\ ~lastCall'.oob
          /\ gridState' = applyWrites(gridState, writes)
          /\ DOMAIN gridState' = Cells
    ]_vars

\* SwipeByDiagonal on a 3 x 4 grid, the update() that brings the block of its
\* first swipe to the end of the path (index 9 of 12) and reverses it
C39_Witness ==
  /\ currentProgram = 5 /\ actualRows = 3 /\ actualCols = 4
  /\ lastCall.kind = "update" /\ lastCall.stepped /\ ~lastCall.oob
  /\ programs[5].phase = 2
  /\ programs[5].currentDiagonal1Index = 9
  /\ programs[5].diagonal1Direction = -1
  /\ programs[5].diagonal1SwipeCount = 1
  /\ Len(lastCall.painted) = 3

\* C40: while the images are not loaded (before setup finishes, or forever if
\* image loading failed), a tick changes no engine state: no program update()
\* is called, and the grid, every program, the freeze flag and counter, the
\* active index and the colour mode are left unchanged.
C40_NothingMovesBeforeImagesLoad ==
  [][(~imagesLoaded /\ Tick) =>
       /\ ~lastCall'.updateInvoked /\ ~lastCall'.stepped
       /\ ~lastCall'.switched /\ ~lastCall'.colorChanged
       /\ gridState' = gridState
       /\ programs' = programs
       /\ \A i \in DOMAIN programs : programs'[i].phase = programs[i].phase
       /\ isFrozen' = isFrozen /\ freezeCounter' = freezeCounter
       /\ currentColorMode' = currentColorMode
       /\ useBrickGrayscale' = useBrickGrayscale
       /\ useClayGrayscale' = useClayGrayscale
       /\ currentProgramIndex' = currentProgramIndex
       /\ currentProgram' = currentProgram
       /\ imagesLoaded' = imagesLoaded
       /\ UNCHANGED <<actualRows, actualCols, updatesSinceReset, doneAge>>
    ]_vars

\* a tick while p.setup awaits the clay image, after a resize built a 1 x 10
\* grid and the programs: the first program is still in phase 1 on an
\* all-CLAY grid
C40_Witness ==
  /\ setupAt = "clay" /\ ~imagesLoaded
  /\ lastCall.kind = "tick" /\ ~lastCall.updateInvoked
  /\ actualRows = 1 /\ actualCols = 10
  /\ currentProgram = 0 /\ programs[currentProgram].phase = 1
  /\ updatesSinceReset = 0
  /\ ~isFrozen /\ freezeCounter = 0
  /\ AllClay

=============================================================================
